---------------------------- MODULE Spec2Model ----------------------------
(***************************************************************************)
(* Dice-roll rigging and replay engine of sa-dd/diceroll-physics.          *)
(*                                                                         *)
(* The model follows the shadow-throw architecture: the component          *)
(* dice-game.tsx (shadow world, frame recorder, rigging engine) together   *)
(* with the hook that consumes it through onShadowThrowNeeded              *)
(* (src/unnamed/part_014: executeThrow, updatePlayback), and the operator  *)
(* menu of src/unnamed/part_017 that sets the rigging preset.              *)
(*                                                                         *)
(* Numbers are fixed point.  Positions, velocities and angular velocities  *)
(* are in hundredths (PS), quaternion components and blend weights in      *)
(* thousandths (QS), angles in milliradians, timestamps in milliseconds.   *)
(***************************************************************************)
EXTENDS Integers, Sequences, FiniteSets, TLC

(***************************************************************************)
(* Fixed-point arithmetic                                                  *)
(***************************************************************************)
PS == 10 * 10
QS == 10 * 10 * 10
\* Math.PI in milliradians
PiMrad == 3142
HalfPiMrad == PiMrad \div 2

Abs(x) == IF x < 0 THEN -x ELSE x
Min(a, b) == IF a < b THEN a ELSE b
Max(a, b) == IF a > b THEN a ELSE b

\* F applied to the value of v: a JavaScript const, computed once however often F reads it
Strict(v, F(_)) == CHOOSE r \in {F(x) : x \in {v}} : TRUE

\* a / b rounded to the nearest integer (b > 0), symmetric around zero
RDiv(a, b) == IF a >= 0 THEN (a + b \div 2) \div b ELSE -((-a + b \div 2) \div b)

\* Math.floor(a / b) for b > 0
FloorDiv(a, b) == a \div b

RECURSIVE SqrtIter(_, _)
SqrtIter(n, x) ==
    Strict((x + n \div x) \div 2, LAMBDA y : IF y >= x THEN x ELSE SqrtIter(n, y))

\* Math.sqrt on a non-negative integer, rounded down
ISqrt(n) == IF n <= 0 THEN 0 ELSE SqrtIter(n, n)

\* Math.sin of an angle in milliradians, result in thousandths
\* (Bhaskara's rational approximation on [0, pi], odd and periodic outside)
RECURSIVE Sin(_)
Sin(x) ==
    IF x < 0 THEN -Sin(-x)
    ELSE IF x > PiMrad THEN -Sin(x - PiMrad)
    ELSE LET p == x * (PiMrad - x)
             den == (5 * PiMrad * PiMrad - 4 * p) \div QS
         IN  RDiv(16 * p, den)

Cos(x) == Sin(x + HalfPiMrad)

\* Math.acos of a cosine in thousandths, result in milliradians
\* (Abramowitz-Stegun 4.4.45: sqrt(1-x) * cubic, mirrored for x < 0)
ACosPos(c) ==
    LET root == ISqrt((QS - c) * QS)
        poly == RDiv((RDiv((RDiv(-187 * c, QS) + 743) * c, QS) - 2121) * c, QS) + 15707
    IN  RDiv(root * poly, 10 * QS)

ACos(c) ==
    IF c >= QS THEN 0
    ELSE IF c <= -QS THEN PiMrad
    ELSE IF c >= 0 THEN ACosPos(c) ELSE PiMrad - ACosPos(-c)

\* 1 / (1 + Math.exp(-x)) for x in thousandths, result in thousandths
\* (table at the integers, linear in between)
SigmoidTable == <<500, 731, 881, 953, 982, 993, 998, 999, 1000, 1000, 1000>>

SigmoidPos(x) ==
    LET k == x \div QS
        f == x % QS
    IN  IF k >= 9 THEN QS
        ELSE SigmoidTable[k + 1] + RDiv((SigmoidTable[k + 2] - SigmoidTable[k + 1]) * f, QS)

Sigmoid(x) == IF x >= 0 THEN SigmoidPos(x) ELSE QS - SigmoidPos(-x)

(***************************************************************************)
(* Vectors <<x, y, z>> and quaternions <<x, y, z, w>>                       *)
(***************************************************************************)
Vec3(x, y, z) == <<x, y, z>>
ZeroVec == <<0, 0, 0>>
Quat(x, y, z, w) == <<x, y, z, w>>
IdentityQuat == <<0, 0, 0, QS>>

VAdd(a, b) == <<a[1] + b[1], a[2] + b[2], a[3] + b[3]>>
VScale(a, num, den) == <<RDiv(a[1] * num, den), RDiv(a[2] * num, den), RDiv(a[3] * num, den)>>
VDot(a, b) == a[1] * b[1] + a[2] * b[2] + a[3] * b[3]
VCross(a, b) == <<a[2] * b[3] - a[3] * b[2], a[3] * b[1] - a[1] * b[3], a[1] * b[2] - a[2] * b[1]>>
\* Vector3.length()
VLength(a) == ISqrt(VDot(a, a))

QDot(a, b) == a[1] * b[1] + a[2] * b[2] + a[3] * b[3] + a[4] * b[4]
QNeg(q) == <<-q[1], -q[2], -q[3], -q[4]>>
QConj(q) == <<-q[1], -q[2], -q[3], q[4]>>

\* Quaternion.multiplyQuaternions(a, b), both in thousandths
QMul(a, b) ==
    <<RDiv(a[1] * b[4] + a[4] * b[1] + a[2] * b[3] - a[3] * b[2], QS),
      RDiv(a[2] * b[4] + a[4] * b[2] + a[3] * b[1] - a[1] * b[3], QS),
      RDiv(a[3] * b[4] + a[4] * b[3] + a[1] * b[2] - a[2] * b[1], QS),
      RDiv(a[4] * b[4] - a[1] * b[1] - a[2] * b[2] - a[3] * b[3], QS)>>

\* Quaternion.normalize()
QNormalize(q) ==
    Strict(ISqrt(QDot(q, q)), LAMBDA len :
        IF len = 0 THEN IdentityQuat
        ELSE <<RDiv(q[1] * QS, len), RDiv(q[2] * QS, len), RDiv(q[3] * QS, len),
               RDiv(q[4] * QS, len)>>)

\* Quaternion.setFromAxisAngle(axis, angle): axis a unit vector in thousandths
QFromAxisAngle(axis, angle) ==
    Strict(Sin(angle \div 2), LAMBDA s :
        <<RDiv(axis[1] * s, QS), RDiv(axis[2] * s, QS), RDiv(axis[3] * s, QS),
          Cos(angle \div 2)>>)

\* Vector3.applyQuaternion(q) for an integer vector v; the result is scaled by QS * QS
ApplyQuaternion(v, q) ==
    LET ix == q[4] * v[1] + q[2] * v[3] - q[3] * v[2]
        iy == q[4] * v[2] + q[3] * v[1] - q[1] * v[3]
        iz == q[4] * v[3] + q[1] * v[2] - q[2] * v[1]
        iw == -q[1] * v[1] - q[2] * v[2] - q[3] * v[3]
    IN  <<ix * q[4] - iw * q[1] - iy * q[3] + iz * q[2],
          iy * q[4] - iw * q[2] - iz * q[1] + ix * q[3],
          iz * q[4] - iw * q[3] - ix * q[2] + iy * q[1]>>

(***************************************************************************)
(* Math.random: every handler draws from a stream fixed by a seed that the *)
(* handler picks from RandomSeeds; Random(seed, k) is the k-th draw, in    *)
(* thousandths of [0, 1).                                                  *)
(***************************************************************************)
MaxSeed == 1
RandomSeeds == 0..MaxSeed
Random(seed, k) == ((seed + 1) * 617 + k * 389) % QS

(***************************************************************************)
(* Face-value mapping and readout                                          *)
(***************************************************************************)
DieCount == 3
Dice == 1..DieCount
FaceValues == 1..6

\* a table that puts the value 6 on the +X face as well
FaceTableWithRepeatedAxis ==
    [v \in FaceValues |->
        CASE v = 1 -> <<1, 0, 0>>
          [] v = 6 -> <<1, 0, 0>>
          [] v = 2 -> <<0, 1, 0>>
          [] v = 5 -> <<0, -1, 0>>
          [] v = 3 -> <<0, 0, 1>>
          [] v = 4 -> <<0, 0, -1>>]

FACE_VALUE_TO_NORMAL ==
    [v \in FaceValues |->
        CASE v = 1 -> <<1, 0, 0>>
          [] v = 6 -> <<-1, 0, 0>>
          [] v = 2 -> <<0, 1, 0>>
          [] v = 5 -> <<0, -1, 0>>
          [] v = 3 -> <<0, 0, 1>>
          [] v = 4 -> <<0, 0, -1>>]

WorldUp == <<0, 1, 0>>
WorldDown == <<0, -1, 0>>

\* the orientation turning the unit axis `from` onto the unit axis `to`
\* (shared body of calculateOrientationForFaceValue / calculateLandingOrientation)
AlignAxis(from, to) ==
    Strict(ACos(VDot(from, to) * QS), LAMBDA angle :
        IF Abs(angle) < 1 THEN IdentityQuat
        ELSE IF Abs(angle - PiMrad) < 1 THEN QFromAxisAngle(<<QS, 0, 0>>, PiMrad)
        ELSE QFromAxisAngle(VScale(VCross(from, to), QS, 1), angle))

\* the face turned towards the floor instead of the sky
calculateOrientationFaceDown(faceValue) ==
    IF faceValue \notin DOMAIN FACE_VALUE_TO_NORMAL THEN IdentityQuat
    ELSE AlignAxis(FACE_VALUE_TO_NORMAL[faceValue], WorldDown)

calculateOrientationForFaceValue(faceValue) ==
    IF faceValue \notin DOMAIN FACE_VALUE_TO_NORMAL THEN IdentityQuat
    ELSE AlignAxis(FACE_VALUE_TO_NORMAL[faceValue], WorldUp)

\* rand: the Math.random() draw of the jitter about world-up, in thousandths
calculateLandingOrientation(faceValue, rand) ==
    IF faceValue \notin DOMAIN FACE_VALUE_TO_NORMAL THEN IdentityQuat
    ELSE Strict(AlignAxis(VScale(FACE_VALUE_TO_NORMAL[faceValue], -1, 1), WorldDown),
                LAMBDA quaternion :
         Strict(QFromAxisAngle(<<0, QS, 0>>, RDiv((rand - QS \div 2) * PiMrad, 4 * QS)),
                LAMBDA randomYRotation : QMul(randomYRotation, quaternion)))

faceNormals == <<(<<1, 0, 0>>), (<<-1, 0, 0>>), (<<0, 1, 0>>), (<<0, -1, 0>>), (<<0, 0, 1>>), (<<0, 0, -1>>)>>
faceValues == <<1, 6, 2, 5, 3, 4>>

RECURSIVE TopFaceIndex(_, _, _, _)
TopFaceIndex(rotation, index, maxAlignment, topFaceIndex) ==
    IF index > Len(faceNormals) THEN topFaceIndex
    ELSE LET alignment == VDot(ApplyQuaternion(faceNormals[index], rotation), WorldUp)
         IN  IF topFaceIndex = 0 \/ alignment > maxAlignment
             THEN TopFaceIndex(rotation, index + 1, alignment, index)
             ELSE TopFaceIndex(rotation, index + 1, maxAlignment, topFaceIndex)

\* getShadowDiceValue / getDiceValue: the face whose normal is most aligned with world-up
getShadowDiceValue(quaternion) == faceValues[TopFaceIndex(quaternion, 1, 0, 0)]

(***************************************************************************)
(* Quaternion interpolation and orienting torque (dice-game.tsx)           *)
(***************************************************************************)
\* a slerp that goes into the general formula at the ends of the parameter range too
slerpQuaternionsWithoutEnds(qa, qb, t) ==
    Strict(RDiv(QDot(qa, qb), QS), LAMBDA cosHalfTheta :
         IF Abs(cosHalfTheta) >= QS THEN qa
         ELSE Strict(ACos(cosHalfTheta), LAMBDA halfTheta :
              Strict(ISqrt(QS * QS - cosHalfTheta * cosHalfTheta), LAMBDA sinHalfTheta :
              IF Abs(sinHalfTheta) < 1
              THEN <<(qa[1] + qb[1]) \div 2, (qa[2] + qb[2]) \div 2,
                     (qa[3] + qb[3]) \div 2, (qa[4] + qb[4]) \div 2>>
              ELSE Strict(RDiv(Sin(RDiv((QS - t) * halfTheta, QS)) * QS, sinHalfTheta),
                          LAMBDA ratioA :
                   Strict(RDiv(Sin(RDiv(t * halfTheta, QS)) * QS, sinHalfTheta),
                          LAMBDA ratioB :
                       <<RDiv(qa[1] * ratioA + qb[1] * ratioB, QS),
                         RDiv(qa[2] * ratioA + qb[2] * ratioB, QS),
                         RDiv(qa[3] * ratioA + qb[3] * ratioB, QS),
                         RDiv(qa[4] * ratioA + qb[4] * ratioB, QS)>>)))))

\* t in thousandths
slerpQuaternions(qa, qb, t) ==
    IF t = 0 THEN qa
    ELSE IF t = QS THEN qb
    ELSE Strict(RDiv(QDot(qa, qb), QS), LAMBDA cosHalfTheta :
         IF Abs(cosHalfTheta) >= QS THEN qa
         ELSE Strict(ACos(cosHalfTheta), LAMBDA halfTheta :
              Strict(ISqrt(QS * QS - cosHalfTheta * cosHalfTheta), LAMBDA sinHalfTheta :
              IF Abs(sinHalfTheta) < 1
              THEN <<(qa[1] + qb[1]) \div 2, (qa[2] + qb[2]) \div 2,
                     (qa[3] + qb[3]) \div 2, (qa[4] + qb[4]) \div 2>>
              ELSE Strict(RDiv(Sin(RDiv((QS - t) * halfTheta, QS)) * QS, sinHalfTheta),
                          LAMBDA ratioA :
                   Strict(RDiv(Sin(RDiv(t * halfTheta, QS)) * QS, sinHalfTheta),
                          LAMBDA ratioB :
                       <<RDiv(qa[1] * ratioA + qb[1] * ratioB, QS),
                         RDiv(qa[2] * ratioA + qb[2] * ratioB, QS),
                         RDiv(qa[3] * ratioA + qb[3] * ratioB, QS),
                         RDiv(qa[4] * ratioA + qb[4] * ratioB, QS)>>)))))

\* strength in thousandths; the result is an angular velocity in hundredths
calculateOrientingTorque(currentRotation, targetRotation, strength) ==
    Strict(QMul(targetRotation, QConj(currentRotation)), LAMBDA diffQuat :
    Strict(Max(-QS, Min(QS, diffQuat[4])), LAMBDA w :
    Strict(ISqrt(QS * QS - w * w), LAMBDA s :
    Strict(IF Abs(w) < QS /\ s > 0
           THEN <<RDiv(diffQuat[1] * QS, s), RDiv(diffQuat[2] * QS, s), RDiv(diffQuat[3] * QS, s)>>
           ELSE ZeroVec,
           LAMBDA raw :
    Strict(VLength(raw), LAMBDA len :
        LET angle == IF Abs(w) < QS THEN 2 * ACos(w) ELSE 0
            axisAngle == IF len = 0 THEN ZeroVec ELSE VScale(raw, QS, len)
            \* angle * strength * 1.5, in thousandths
            factor == RDiv(RDiv(angle * strength, QS) * 3, 2)
        IN  VScale(axisAngle, factor * PS, QS * QS))))))

(***************************************************************************)
(* Rigging presets (RIGGING_PRESETS) and the operator's settings           *)
(***************************************************************************)
RiggingPresets == {"off", "lucky", "unlucky", "balanced", "snake-eyes", "jackpot", "custom"}

\* the same loop without the test that a die is still below six
RECURSIVE RaiseToSumUncapped(_, _, _, _, _)
RaiseToSumUncapped(results, currentSum, targetSum, seed, k) ==
    IF ~(currentSum < targetSum) THEN results
    ELSE Strict([results EXCEPT ![FloorDiv(Random(seed, k) * 3, QS) + 1] = @ + 1],
                LAMBDA raised : RaiseToSumUncapped(raised, currentSum + 1, targetSum, seed, k + 1))

\* the while loop of the lucky / unlucky / balanced generators; k counts the draws
RECURSIVE RaiseToSum(_, _, _, _, _)
RaiseToSum(results, currentSum, targetSum, seed, k) ==
    IF ~(currentSum < targetSum) THEN results
    ELSE LET diceIndex == FloorDiv(Random(seed, k) * 3, QS) + 1
         IN  IF results[diceIndex] < 6
             THEN Strict([results EXCEPT ![diceIndex] = @ + 1],
                         LAMBDA raised : RaiseToSum(raised, currentSum + 1, targetSum, seed, k + 1))
             ELSE RaiseToSum(results, currentSum, targetSum, seed, k + 1)

SumToTarget(targetSums, seed) ==
    LET targetSum == targetSums[FloorDiv(Random(seed, 0) * Len(targetSums), QS) + 1]
    IN  RaiseToSum(<<1, 1, 1>>, 3, targetSum, seed, 1)

generateResults(preset, seed) ==
    CASE preset = "off" -> <<>>
      [] preset = "lucky" -> SumToTarget(<<15, 16, 17, 18>>, seed)
      [] preset = "unlucky" -> SumToTarget(<<3, 4, 5, 6>>, seed)
      [] preset = "balanced" -> SumToTarget(<<9, 10, 11, 12>>, seed)
      [] preset = "snake-eyes" -> <<1, 1, 1>>
      [] preset = "jackpot" -> <<6, 6, 6>>
      [] preset = "custom" -> <<4, 4, 4>>

(***************************************************************************)
(* Frames and recordings                                                   *)
(***************************************************************************)
TRANSITION_FRAMES == 15
\* 2.0, in hundredths
VELOCITY_SETTLE_THRESHOLD == 200
\* 5.0, in hundredths
MIDAIR_HEIGHT_THRESHOLD == 500
PHYSICS_INFLUENCE_FRAMES == 40
\* recordings shorter than this are not rigged
MIN_RIG_FRAMES == 10
\* frameInterval of the synthesized frames, in ms
FRAME_INTERVAL == 16

DieState(position, quaternion, velocity, angularVelocity) ==
    [position |-> position, quaternion |-> quaternion,
     velocity |-> velocity, angularVelocity |-> angularVelocity]

PhysicsFrame(timestamp, diceStates) == [timestamp |-> timestamp, diceStates |-> diceStates]

ShadowRecording(frames, finalResults, isComplete, isRigged, desiredResults) ==
    [frames |-> frames, finalResults |-> finalResults, isComplete |-> isComplete,
     isRigged |-> isRigged, desiredResults |-> desiredResults]

RECURSIVE SumHeights(_, _)
SumHeights(diceStates, n) ==
    IF n = 0 THEN 0 ELSE diceStates[n].position[2] + SumHeights(diceStates, n - 1)

\* the sum of the dice heights of a frame; the code's avgHeight is this over the die count
HeightSum(frame) == SumHeights(frame.diceStates, Len(frame.diceStates))

\* first loop of findMidairPoint: <<peakIndex, peak height sum>>, indices from 0
RECURSIVE FindPeak(_, _, _, _)
FindPeak(frames, i, peakIndex, peakHeight) ==
    IF i >= Len(frames) THEN <<peakIndex, peakHeight>>
    ELSE IF HeightSum(frames[i + 1]) > peakHeight
         THEN FindPeak(frames, i + 1, i, HeightSum(frames[i + 1]))
         ELSE FindPeak(frames, i + 1, peakIndex, peakHeight)

RECURSIVE FirstMidair(_, _, _, _)
FirstMidair(frames, i, peakIndex, peakHeight) ==
    IF i >= peakIndex THEN FloorDiv(Len(frames), 4)
    ELSE LET states == frames[i + 1].diceStates
             allAboveGround == \A d \in 1..Len(states) : states[d].position[2] > 3 * PS
         IN  IF allAboveGround /\ 4 * HeightSum(frames[i + 1]) > 3 * peakHeight
             THEN i
             ELSE FirstMidair(frames, i + 1, peakIndex, peakHeight)

\* index (from 0) of the frame where rigging starts to act
findMidairPoint(frames) ==
    LET peak == FindPeak(frames, 0, 0, 0)
    IN  FirstMidair(frames, 0, peak[1], peak[2])

\* a settle search that stops at the earliest slow frame instead of the latest
RECURSIVE FirstSlow(_, _)
FirstSlow(frames, i) ==
    IF i >= Len(frames) THEN FloorDiv(Len(frames) * 2, 3)
    ELSE IF \A d \in 1..Len(frames[i + 1].diceStates) :
                VDot(frames[i + 1].diceStates[d].velocity, frames[i + 1].diceStates[d].velocity)
                    < VELOCITY_SETTLE_THRESHOLD * VELOCITY_SETTLE_THRESHOLD
         THEN Max(0, i - 5)
         ELSE FirstSlow(frames, i + 1)

findSettleIndexEarliest(frames) == FirstSlow(frames, 0)

RECURSIVE LastSlow(_, _)
LastSlow(frames, i) ==
    IF i < 0 THEN FloorDiv(Len(frames) * 2, 3)
    ELSE LET states == frames[i + 1].diceStates
             allSlowingDown == \A d \in 1..Len(states) :
                                   VDot(states[d].velocity, states[d].velocity)
                                       < VELOCITY_SETTLE_THRESHOLD * VELOCITY_SETTLE_THRESHOLD
         IN  IF allSlowingDown THEN Max(0, i - 5) ELSE LastSlow(frames, i - 1)

\* index (from 0) where the closing phase starts
findSettleIndex(frames) == LastSlow(frames, Len(frames) - 1)

\* Array.prototype.slice(from, to) with indices from 0
Slice(seq, from, to) == SubSeq(seq, from + 1, Min(to, Len(seq)))

\* one die of one physics-influenced frame (body of the map in createNaturalTransitionFrames)
InfluenceDie(diceState, targetRot, i, totalFrames, strengthFactor, randX, randZ) ==
    Strict(RDiv(RDiv(Sigmoid(RDiv(15 * QS * i, totalFrames) - 5250) * strengthFactor, QS) * 12, 10),
           LAMBDA appliedStrength :
    Strict(VAdd(diceState.angularVelocity,
                calculateOrientingTorque(diceState.quaternion, targetRot,
                                         RDiv(appliedStrength * 3, 10))),
           LAMBDA adjustedAngVel :
    Strict(VLength(adjustedAngVel), LAMBDA angSpeed :
        LET vel == diceState.velocity
            vy == IF diceState.position[2] > MIDAIR_HEIGHT_THRESHOLD /\ 10 * i > 3 * totalFrames
                  THEN Min(vel[2], -RDiv(250 * (totalFrames - i), totalFrames))
                  ELSE vel[2]
            jitter(rand) == IF 5 * i > totalFrames
                            THEN RDiv((rand - QS \div 2) * 15 * appliedStrength, QS * QS)
                            ELSE 0
            maxAngVel == 10 * PS
        IN  DieState(diceState.position,
                     slerpQuaternions(diceState.quaternion, targetRot, appliedStrength),
                     <<vel[1] + jitter(randX), vy, vel[3] + jitter(randZ)>>,
                     IF angSpeed > maxAngVel THEN VScale(adjustedAngVel, maxAngVel, angSpeed)
                                             ELSE adjustedAngVel))))

\* the loop of createNaturalTransitionFrames; i counts from 0, done holds frames 0..i-1
RECURSIVE InfluenceLoop(_, _, _, _, _, _, _, _)
InfluenceLoop(startFrame, originalFrames, targets, strengthFactor, seed, totalFrames, i, done) ==
    IF i >= totalFrames THEN done
    ELSE LET useOriginalFrame == i < Len(originalFrames)
             frameToModify == IF useOriginalFrame THEN originalFrames[i + 1]
                              ELSE IF i > 0 THEN done[i] ELSE startFrame
             timestamp == IF useOriginalFrame THEN originalFrames[i + 1].timestamp
                          ELSE startFrame.timestamp + i * FRAME_INTERVAL
         IN  Strict(Append(done,
                        PhysicsFrame(timestamp,
                            [idx \in 1..Len(frameToModify.diceStates) |->
                                InfluenceDie(frameToModify.diceStates[idx], targets[idx], i,
                                             totalFrames, strengthFactor,
                                             Random(seed, 10 + 6 * i + 2 * idx),
                                             Random(seed, 11 + 6 * i + 2 * idx))])),
                    LAMBDA frames : InfluenceLoop(startFrame, originalFrames, targets,
                                                  strengthFactor, seed, totalFrames, i + 1, frames))

\* the soft-landing frame appended after the loop
CushionFrame(lastFrame, targets) ==
    PhysicsFrame(
        lastFrame.timestamp + FRAME_INTERVAL,
        [idx \in 1..Len(lastFrame.diceStates) |->
            LET diceState == lastFrame.diceStates[idx]
            IN  DieState(diceState.position,
                         slerpQuaternions(diceState.quaternion, targets[idx], 300),
                         VScale(diceState.velocity, 4, 10),
                         VScale(diceState.angularVelocity, 2, 10))])

createNaturalTransitionFrames(startFrame, originalFrames, targetValues, strengthFactor, seed) ==
    Strict([idx \in 1..Len(targetValues) |->
               calculateLandingOrientation(targetValues[idx], Random(seed, 3 + idx))],
           LAMBDA targetLandingOrientations :
    Strict(InfluenceLoop(startFrame, originalFrames, targetLandingOrientations, strengthFactor,
                         seed,
                         IF Len(originalFrames) > 0 THEN Len(originalFrames)
                                                    ELSE PHYSICS_INFLUENCE_FRAMES,
                         0, <<>>),
           LAMBDA transitionFrames :
        IF Len(transitionFrames) > 0
        THEN Append(transitionFrames,
                    CushionFrame(transitionFrames[Len(transitionFrames)],
                                 targetLandingOrientations))
        ELSE transitionFrames))

\* one frame of the closing phase, i from 0 to numFrames - 1
ClosingFrame(startFrame, targetRotations, i, numFrames) ==
    PhysicsFrame(
        startFrame.timestamp + i * FRAME_INTERVAL,
        [index \in 1..Len(startFrame.diceStates) |->
            LET diceState == startFrame.diceStates[index]
                \* progress = i / (numFrames - 1), velocityFactor = 1 - progress
                progress == RDiv(i * QS, numFrames - 1)
                left == numFrames - 1 - i
                den == (numFrames - 1) * (numFrames - 1)
            IN  DieState(diceState.position,
                         slerpQuaternions(diceState.quaternion, targetRotations[index], progress),
                         VScale(diceState.velocity, left * left, den),
                         VScale(diceState.angularVelocity, left * left, den))])

createTransitionFrames(startFrame, targetValues, numFrames) ==
    Strict([index \in 1..Len(targetValues) |->
               calculateOrientationForFaceValue(targetValues[index])],
           LAMBDA targetRotations :
    Strict([n \in 1..numFrames |-> ClosingFrame(startFrame, targetRotations, n - 1, numFrames)],
           LAMBDA transitionFrames :
        LET finalFrame == transitionFrames[Len(transitionFrames)]
        IN  Append(transitionFrames,
                   PhysicsFrame(finalFrame.timestamp + FRAME_INTERVAL,
                                [index \in 1..Len(finalFrame.diceStates) |->
                                    DieState(finalFrame.diceStates[index].position,
                                             finalFrame.diceStates[index].quaternion,
                                             ZeroVec, ZeroVec)]))))

\* rigging: the preset and custom values in effect now (currentRiggingRef.current)
RiggingSettings(preset, customResults) == [preset |-> preset, customResults |-> customResults]

\* desired results as rigRecording reads them
DesiredResultsOf(rigging, seed) ==
    IF rigging.preset = "custom" THEN rigging.customResults
    ELSE generateResults(rigging.preset, seed)

\* a rigging that starts to act on the first frame instead of the mid-air frame
RigFramesFromStart(frames, desiredResults, seed) ==
    Strict(findSettleIndex(frames), LAMBDA settleIndex :
    Strict(createNaturalTransitionFrames(frames[1], Slice(frames, 0, settleIndex),
                                         desiredResults, 900, seed),
           LAMBDA physicsInfluencedFrames :
        physicsInfluencedFrames
            \o (IF settleIndex < Len(frames)
                THEN createTransitionFrames(
                         physicsInfluencedFrames[Len(physicsInfluencedFrames)],
                         desiredResults, TRANSITION_FRAMES)
                ELSE <<>>)))

\* the segmentation and rebuilding part of rigRecording, for a recording it does rig
RigFrames(frames, desiredResults, seed) ==
    Strict(findMidairPoint(frames), LAMBDA midAirIndex :
    Strict(findSettleIndex(frames), LAMBDA settleIndex :
    Strict(Slice(frames, midAirIndex, Min(settleIndex, Len(frames))),
           LAMBDA framesToInfluence :
    Strict(createNaturalTransitionFrames(frames[midAirIndex + 1], framesToInfluence,
                                         desiredResults, 900, seed),
           LAMBDA physicsInfluencedFrames :
        Slice(frames, 0, midAirIndex)
            \o physicsInfluencedFrames
            \o (IF settleIndex < Len(frames)
                THEN createTransitionFrames(
                         physicsInfluencedFrames[Len(physicsInfluencedFrames)],
                         desiredResults, TRANSITION_FRAMES)
                ELSE <<>>)))))

\* a rigRecording that goes on with snake eyes when the rigging is off or asks for nothing
rigRecordingIgnoringToggle(recording, rigging, seed) ==
    Strict(IF rigging.preset = "off" \/ Len(DesiredResultsOf(rigging, seed)) = 0
           THEN <<1, 1, 1>> ELSE DesiredResultsOf(rigging, seed),
           LAMBDA desiredResults :
             IF Len(recording.frames) < MIN_RIG_FRAMES THEN recording
             ELSE ShadowRecording(RigFrames(recording.frames, desiredResults, seed),
                                  desiredResults, TRUE, TRUE, desiredResults))

\* a rigRecording without the minimum frame count
rigRecordingAnyLength(recording, rigging, seed) ==
    IF rigging.preset = "off" THEN recording
    ELSE Strict(DesiredResultsOf(rigging, seed), LAMBDA desiredResults :
             IF Len(desiredResults) = 0 THEN recording
             ELSE ShadowRecording(RigFrames(recording.frames, desiredResults, seed),
                                  desiredResults, TRUE, TRUE, desiredResults))

\* rigging that rebuilds the frames but leaves the natural results in the Recording
rigRecordingKeepingResults(recording, rigging, seed) ==
    IF rigging.preset = "off" THEN recording
    ELSE Strict(DesiredResultsOf(rigging, seed), LAMBDA desiredResults :
             IF Len(desiredResults) = 0 THEN recording
             ELSE IF Len(recording.frames) < MIN_RIG_FRAMES THEN recording
             ELSE ShadowRecording(RigFrames(recording.frames, desiredResults, seed),
                                  recording.finalResults, TRUE, TRUE, desiredResults))

rigRecording(recording, rigging, seed) ==
    IF rigging.preset = "off" THEN recording
    ELSE Strict(DesiredResultsOf(rigging, seed), LAMBDA desiredResults :
             IF Len(desiredResults) = 0 THEN recording
             ELSE IF Len(recording.frames) < MIN_RIG_FRAMES THEN recording
             ELSE ShadowRecording(RigFrames(recording.frames, desiredResults, seed),
                                  desiredResults, TRUE, TRUE, desiredResults))

(***************************************************************************)
(* Rigid bodies and the physics step                                       *)
(*                                                                         *)
(* CANNON.World.step is library code.  It is modelled by a deterministic   *)
(* integrator: gravity, explicit Euler, a floor contact with restitution   *)
(* and contact losses, and first-order quaternion integration.  A die      *)
(* rests at restHeight: the half extent of the cube on the floor, or one   *)
(* cube higher when it comes down on top of another die.                   *)
(***************************************************************************)
\* gravity.set(0, -50, 0) and gravity.set(0, -1, 0), in hundredths
THROW_GRAVITY == -5000
FLOAT_GRAVITY == -100
\* timeStep = 1 / 60
STEP_RATE == 60
\* CANNON.Box(new CANNON.Vec3(0.8, 0.8, 0.8)): a die on the floor has its centre at 0.8
FLOOR_REST == 80
\* a die lying on another die: 0.8 + 1.6
STACKED_REST == FLOOR_REST + 2 * FLOOR_REST
\* restitution 0.2 of the cube-floor contact, in thousandths
RESTITUTION == 200
FLOAT_BASE_HEIGHT == 300

Body(position, quaternion, velocity, angularVelocity, type, sleeping) ==
    [position |-> position, quaternion |-> quaternion, velocity |-> velocity,
     angularVelocity |-> angularVelocity, type |-> type, sleeping |-> sleeping]

\* truncation toward zero, so that a decaying speed reaches 0
TDiv(a, b) == IF a >= 0 THEN a \div b ELSE -((-a) \div b)

\* q + (dt / 2) * (w (x) q), normalised
IntegrateQuaternion(q, w) ==
    IF w = ZeroVec THEN q
    ELSE Strict(<<w[1] * q[4] + w[2] * q[3] - w[3] * q[2],
                  w[2] * q[4] + w[3] * q[1] - w[1] * q[3],
                  w[3] * q[4] + w[1] * q[2] - w[2] * q[1],
                  -w[1] * q[1] - w[2] * q[2] - w[3] * q[3]>>,
                LAMBDA d :
         Strict(<<q[1] + RDiv(d[1], 2 * STEP_RATE * PS), q[2] + RDiv(d[2], 2 * STEP_RATE * PS),
                  q[3] + RDiv(d[3], 2 * STEP_RATE * PS), q[4] + RDiv(d[4], 2 * STEP_RATE * PS)>>,
                QNormalize))

\* the walls of the play area, inside the +-20 of the render loop's boundary check
WallReach == 10 * PS
WallClamp(p) == IF p > WallReach THEN WallReach ELSE IF p < -WallReach THEN -WallReach ELSE p
WallVelocity(p, v) ==
    IF (p > WallReach /\ v > 0) \/ (p < -WallReach /\ v < 0) THEN TDiv(-v * RESTITUTION, QS) ELSE v

\* one step of one body under gravity gravityY, coming to rest at restHeight
StepBody(b, gravityY, restHeight) ==
    IF b.type = "STATIC" \/ b.sleeping THEN b
    ELSE Strict(<<b.velocity[1], b.velocity[2] + RDiv(gravityY, STEP_RATE), b.velocity[3]>>,
                LAMBDA v1 :
         Strict(<<b.position[1] + RDiv(v1[1], STEP_RATE),
                  b.position[2] + RDiv(v1[2], STEP_RATE),
                  b.position[3] + RDiv(v1[3], STEP_RATE)>>,
                LAMBDA p1 :
         Strict(p1[2] <= restHeight /\ v1[2] <= 0, LAMBDA contact :
         Strict(IF contact
                THEN <<TDiv(b.angularVelocity[1] * 88, 100),
                       TDiv(b.angularVelocity[2] * 88, 100),
                       TDiv(b.angularVelocity[3] * 88, 100)>>
                ELSE b.angularVelocity,
                LAMBDA w2 :
             LET bounce == TDiv(-v1[2] * RESTITUTION, QS)
                 vw == <<WallVelocity(p1[1], v1[1]), v1[2], WallVelocity(p1[3], v1[3])>>
                 v2 == IF contact
                       THEN <<TDiv(vw[1] * 88, 100), IF bounce < PS THEN 0 ELSE bounce,
                              TDiv(vw[3] * 88, 100)>>
                       ELSE vw
                 p2 == <<WallClamp(p1[1]), IF contact THEN restHeight ELSE p1[2],
                         WallClamp(p1[3])>>
             IN  Body(p2, IntegrateQuaternion(b.quaternion, w2), v2, w2, b.type, b.sleeping)))))

\* world.step(timeStep) over a roster; restHeights[i] is where die i comes to rest
WorldStep(bodies, gravityY, restHeights) ==
    [i \in 1..Len(bodies) |-> StepBody(bodies[i], gravityY, restHeights[i])]

RECURSIVE WorldSteps(_, _, _, _)
WorldSteps(bodies, gravityY, restHeights, n) ==
    IF n = 0 THEN bodies
    ELSE Strict(WorldStep(bodies, gravityY, restHeights),
                LAMBDA stepped : WorldSteps(stepped, gravityY, restHeights, n - 1))

\* every die of the visible world lands on the floor
FloorRest == [i \in Dice |-> FLOOR_REST]
\* how the thrown dice come down is fixed by the draws of the throw: all on the floor,
\* or the last die on top of another one
RestOf(seed) ==
    IF seed % 2 = 0 THEN FloorRest
    ELSE [i \in Dice |-> IF i = DieCount THEN STACKED_REST ELSE FLOOR_REST]

(***************************************************************************)
(* The throw impulse of executeShadowThrow                                 *)
(***************************************************************************)
\* in hundredths
DEFAULT_THROW_FORCE_Y == 200
DEFAULT_THROW_FORCE_Z == -3200
\* in thousandths
DEFAULT_THROW_STRENGTH == 1500
\* Math.random() draws one die consumes during the throw
DrawsPerDie == 20

\* Vec3.unit(), in thousandths
VUnit(v) ==
    Strict(VLength(v), LAMBDA len :
        IF len = 0 THEN <<0, 0, 0>>
        ELSE <<RDiv(v[1] * QS, len), RDiv(v[2] * QS, len), RDiv(v[3] * QS, len)>>)

\* the body of shadowCubesRef.current.forEach((cube, index) => ...), index from 0
ThrowBody(body, index, throwStrength, seed) ==
    LET r(n) == Random(seed, index * DrawsPerDie + n)
        c(n) == r(n) - QS \div 2
        randomInitialRotation ==
            QFromAxisAngle(VUnit(<<c(0), c(1), c(2)>>), RDiv(r(3) * 2 * PiMrad, QS))
        variationScale == RDiv(300 * throwStrength, QS)
        vx == RDiv(c(4) * variationScale * 2 * PS, QS * QS)
        vy == RDiv(DEFAULT_THROW_FORCE_Y * throwStrength, QS)
              + RDiv(c(5) * variationScale * PS, QS * QS)
        vz == RDiv(DEFAULT_THROW_FORCE_Z * throwStrength, QS)
              + RDiv(c(6) * variationScale * 3 * PS, QS * QS)
        baseAngularStrength == RDiv((4 * QS + 4 * r(7)) * throwStrength, 10 * QS)
        angular(n) == RDiv(RDiv(c(n) * baseAngularStrength, QS) * (500 + RDiv(r(n + 1) * 3, 2)), QS)
        bias(s) == RDiv(s * 2 * throwStrength, 10 * QS)
        w == <<angular(8) + bias(Sin(index * 1200)),
               angular(10) + bias(Cos(index * 800)),
               angular(12) + bias(Sin(index * 1500))>>
        spinBoost == 3 * PS + RDiv(r(15) * 4 * PS, QS)
        spinAxis == FloorDiv(r(16) * 3, QS) + 1
        boosted == IF r(14) < 300
                   THEN [w EXCEPT ![spinAxis] = @ + RDiv(c(17) * spinBoost, QS)]
                   ELSE w
    IN  Body(body.position, Strict(randomInitialRotation, LAMBDA q : QMul(body.quaternion, q)),
             <<vx, vy, vz>>, boosted, "DYNAMIC", FALSE)

\* (cube) => linearSpeed < 0.15 && angularSpeed < 0.15 && position.y < 1.0
Settled(body) ==
    /\ body.position[2] < PS
    /\ VLength(body.velocity) < 15
    /\ VLength(body.angularVelocity) < 15

\* spawnCubes / spawnShadowCubes: die i at (-2 + 2 i, 7, 2), lifted into the floating pose
SpawnBody(index) ==
    Body(<<-2 * PS + index * 2 * PS, FLOAT_BASE_HEIGHT, 2 * PS>>, IdentityQuat,
         ZeroVec, ZeroVec, "DYNAMIC", FALSE)

(***************************************************************************)
(* State                                                                   *)
(***************************************************************************)
\* rolls the player starts, and menu changes the operator makes, in one behaviour
MaxRolls == 2
MaxOperatorEdits == 1
\* time between two animation frames, in ms
FrameMs == 50
\* MAX_SIMULATION_FRAMES of fastSimulate (300 in the source, scaled down with the engine)
MAX_SIMULATION_FRAMES == 11
STEPS_PER_FRAME == 6
\* 1000 / 60 * SHADOW_SPEED_MULTIPLIER, the spacing of recorded timestamps in ms
RECORD_INTERVAL == 100

VARIABLES
    sceneReady,          \* shadowWorldRef / shadowCubesRef / worldRef / cubesRef are set up
    cubes,               \* bodies of cubesRef.current
    shadowCubes,         \* bodies of shadowCubesRef.current
    shadowRest,          \* where each shadow die comes to rest in the running simulation
    randomSeed,          \* the seed of the Math.random() stream since the last throw
    worldGravity,        \* worldRef.current.gravity.y
    shadowGravity,       \* shadowWorldRef.current.gravity.y
    isThrowingRef,
    floatingModeRef,
    rollResults,
    shadowRecordingRef,  \* isRecording, frames, resolvePromise (0 = null), streamingCallback
    playbackStateRef,    \* isPlayingBack, recording (<<>> = null), elapsed, isRigged, riggedResults
    currentRiggingRef,   \* preset and customResults as the operator menu left them
    rafQueue,            \* callbacks requested for the next animation frame
    frameQueue,          \* callbacks of the running animation frame still to be called
    microtasks,          \* promise continuations waiting to run
    timers,              \* pending setTimeout callbacks with the time left
    op,                  \* the handler that ran last
    rollCount,           \* accepted throw requests so far
    editCount,           \* operator menu changes so far
    riggingAtThrow,      \* currentRiggingRef as it was when the running roll was accepted
    finalizeCount,       \* finalizations of the running roll's playback
    replayState,         \* replayState.current of the record-and-replay hook
    riggedWith,          \* <<target values>> the last rigging of a replay recording read
    targetRequest,       \* the argument of the last setTargetValues call
    rigCount,            \* riggings the frames in replayState.recordedFrames went through
    rigInput,            \* <<the natural Recording handed to rigRecording>>, or <<>>
    rigOutput,           \* <<the Recording rigRecording returned for it>>, or <<>>
    slerpInput,          \* <<qa, qb, t>> handed to slerpQuaternions, or <<>>
    slerpOutput          \* <<the quaternion slerpQuaternions returned for it>>, or <<>>

vars == <<sceneReady, cubes, shadowCubes, shadowRest, randomSeed, worldGravity, shadowGravity,
          isThrowingRef, floatingModeRef, rollResults, shadowRecordingRef,
          playbackStateRef, currentRiggingRef, rafQueue, frameQueue, microtasks,
          timers, op, rollCount, editCount, riggingAtThrow, finalizeCount,
          replayState, riggedWith, targetRequest, rigCount, rigInput, rigOutput,
          slerpInput, slerpOutput>>

worldVars == <<sceneReady, cubes, shadowCubes, shadowRest, randomSeed, worldGravity,
               shadowGravity>>
historyVars == <<rollCount, editCount, riggingAtThrow, finalizeCount>>
replayVars == <<replayState, riggedWith, targetRequest, rigCount>>
rigVars == <<rigInput, rigOutput>>
slerpVars == <<slerpInput, slerpOutput>>

Callback(fn, frameCount) == [fn |-> fn, frameCount |-> frameCount]
Timer(fn, due, finalResults) == [fn |-> fn, due |-> due, finalResults |-> finalResults]
Continuation(promise, value) == [promise |-> promise, value |-> value]

\* useRef initial values
InitialShadowRecording ==
    [isRecording |-> FALSE, frames |-> <<>>, resolvePromise |-> 0, streamingCallback |-> "null"]
InitialPlaybackState ==
    [isPlayingBack |-> FALSE, recording |-> <<>>, elapsed |-> 0, isRigged |-> FALSE,
     riggedResults |-> <<>>]

\* useRef initial value of replayState; the roster is still empty when the hook is created,
\* so Array(cubesRef.current.length).fill(6) is the empty array
InitialReplayState ==
    [isRecording |-> FALSE, isReplaying |-> FALSE, recordedFrames |-> 0,
     targetValues |-> [i \in 1..0 |-> 6], isRigged |-> FALSE]

\* no callback of an animation frame is running and no continuation is waiting
BetweenTasks == frameQueue = <<>> /\ microtasks = <<>>

Init ==
    /\ sceneReady = FALSE
    /\ cubes = <<>>
    /\ shadowCubes = <<>>
    /\ shadowRest = FloorRest
    /\ randomSeed = 0
    /\ worldGravity = FLOAT_GRAVITY
    /\ shadowGravity = FLOAT_GRAVITY
    /\ isThrowingRef = FALSE
    /\ floatingModeRef = FALSE
    /\ rollResults = <<>>
    /\ shadowRecordingRef = InitialShadowRecording
    /\ playbackStateRef = InitialPlaybackState
    /\ currentRiggingRef = RiggingSettings("lucky", <<4, 4, 4>>)
    /\ rafQueue = <<>>
    /\ frameQueue = <<>>
    /\ microtasks = <<>>
    /\ timers = <<>>
    /\ op = "mount"
    /\ rollCount = 0
    /\ editCount = 0
    /\ riggingAtThrow = RiggingSettings("lucky", <<4, 4, 4>>)
    /\ finalizeCount = 0
    /\ replayState = InitialReplayState
    /\ riggedWith = <<>>
    /\ targetRequest = <<>>
    /\ rigCount = 0
    /\ rigInput = <<>>
    /\ rigOutput = <<>>
    /\ slerpInput = <<>>
    /\ slerpOutput = <<>>

(***************************************************************************)
(* Scene setup, and the operator menu                                      *)
(***************************************************************************)
\* the scene effect: both worlds and rosters are created, the dice are taken into the
\* floating pose, and animate(0) requests its first frame
SetupScene ==
    /\ ~sceneReady
    /\ BetweenTasks
    /\ sceneReady' = TRUE
    /\ cubes' = [i \in Dice |-> SpawnBody(i - 1)]
    /\ shadowCubes' = [i \in Dice |-> SpawnBody(i - 1)]
    /\ worldGravity' = FLOAT_GRAVITY
    /\ shadowGravity' = FLOAT_GRAVITY
    /\ floatingModeRef' = TRUE
    /\ rafQueue' = Append(rafQueue, Callback("animate", 0))
    /\ op' = "SetupScene"
    /\ UNCHANGED <<shadowRest, randomSeed, isThrowingRef, rollResults, shadowRecordingRef,
                   playbackStateRef, currentRiggingRef, frameQueue, microtasks, timers,
                   historyVars, replayVars, rigVars, slerpVars>>

\* presets the operator picks in the model
PresetChoices == RiggingPresets

\* setSelectedPreset(preset), and the effect that copies it into currentRiggingRef
setSelectedPreset(preset) ==
    /\ BetweenTasks
    /\ editCount < MaxOperatorEdits
    /\ preset # currentRiggingRef.preset
    /\ currentRiggingRef' = [currentRiggingRef EXCEPT !.preset = preset]
    /\ editCount' = editCount + 1
    /\ op' = "setSelectedPreset"
    /\ UNCHANGED <<worldVars, isThrowingRef, floatingModeRef, rollResults, shadowRecordingRef,
                   playbackStateRef, rafQueue, frameQueue, microtasks, timers, rollCount,
                   riggingAtThrow, finalizeCount, replayVars, rigVars, slerpVars>>

\* setCustomResults with die index set to value, and the same effect
setCustomResults(index, value) ==
    /\ BetweenTasks
    /\ editCount < MaxOperatorEdits
    /\ currentRiggingRef.customResults[index] # value
    /\ currentRiggingRef' = [currentRiggingRef EXCEPT !.customResults[index] = value]
    /\ editCount' = editCount + 1
    /\ op' = "setCustomResults"
    /\ UNCHANGED <<worldVars, isThrowingRef, floatingModeRef, rollResults, shadowRecordingRef,
                   playbackStateRef, rafQueue, frameQueue, microtasks, timers, rollCount,
                   riggingAtThrow, finalizeCount, replayVars, rigVars, slerpVars>>

(***************************************************************************)
(* Throw requests (part_014) and the shadow throw (dice-game.tsx)          *)
(***************************************************************************)
\* syncShadowDiceWithMain: the shadow roster and gravity after the call
SyncedShadowCubes ==
    IF shadowRecordingRef.isRecording \/ Len(cubes) # Len(shadowCubes) THEN shadowCubes
    ELSE cubes
SyncedShadowGravity ==
    IF shadowRecordingRef.isRecording \/ Len(cubes) # Len(shadowCubes) THEN shadowGravity
    ELSE worldGravity

\* executeShadowThrow for the promise `promise`; seed fixes the Math.random() draws
executeShadowThrow(throwStrength, promise, seed) ==
    IF ~sceneReady \/ Len(shadowCubes) = 0
    THEN /\ microtasks' = Append(microtasks,
                Continuation(promise, ShadowRecording(<<>>, <<1, 1, 1>>, FALSE, FALSE, <<>>)))
         /\ UNCHANGED <<shadowCubes, shadowRest, randomSeed, shadowGravity, shadowRecordingRef,
                        rafQueue>>
    ELSE /\ shadowRecordingRef' =
                [isRecording |-> TRUE, frames |-> <<>>, resolvePromise |-> promise,
                 streamingCallback |-> "null"]
         /\ shadowGravity' = THROW_GRAVITY
         /\ shadowCubes' = [i \in 1..Len(shadowCubes) |->
                               ThrowBody(SyncedShadowCubes[i], i - 1, throwStrength, seed)]
         /\ shadowRest' = RestOf(seed)
         /\ randomSeed' = seed
         \* simulateShadowRollFast
         /\ rafQueue' = Append(rafQueue, Callback("fastSimulate", 0))
         /\ UNCHANGED microtasks

\* executeThrow past its guard, up to the await
AcceptThrow(throwStrength, seed) ==
    /\ rollCount < MaxRolls
    /\ isThrowingRef' = TRUE
    /\ floatingModeRef' = FALSE
    /\ rollCount' = rollCount + 1
    /\ riggingAtThrow' = currentRiggingRef
    /\ finalizeCount' = 0
    /\ executeShadowThrow(throwStrength, rollCount + 1, seed)
    /\ op' = "executeThrow"
    /\ UNCHANGED <<sceneReady, cubes, worldGravity, rollResults, playbackStateRef,
                   currentRiggingRef, frameQueue, timers, editCount, replayVars, rigVars, slerpVars>>

\* executeThrow without the isThrowingRef guard of its first line
executeThrowUnguarded(throwStrength, seed) == AcceptThrow(throwStrength, seed)

executeThrow(throwStrength, seed) ==
    IF isThrowingRef
    THEN /\ op' = "executeThrow ignored"
         /\ UNCHANGED <<worldVars, isThrowingRef, floatingModeRef, rollResults,
                        shadowRecordingRef, playbackStateRef, currentRiggingRef, rafQueue,
                        frameQueue, microtasks, timers, historyVars, replayVars, rigVars, slerpVars>>
    ELSE AcceptThrow(throwStrength, seed)

startThrow(throwStrength, seed) ==
    /\ BetweenTasks
    /\ executeThrow(throwStrength, seed)

forceThrow(throwStrength, seed) == startThrow(throwStrength, seed)

\* updateDeadzoneState once the deadzone delay has passed: the floating mode is left,
\* then startThrow(DEFAULT_THROW_STRENGTH)
updateDeadzoneState(seed) ==
    IF isThrowingRef /\ floatingModeRef
    THEN /\ BetweenTasks
         /\ floatingModeRef' = FALSE
         /\ op' = "executeThrow ignored"
         /\ UNCHANGED <<worldVars, isThrowingRef, rollResults, shadowRecordingRef,
                        playbackStateRef, currentRiggingRef, rafQueue, frameQueue,
                        microtasks, timers, historyVars, replayVars, rigVars, slerpVars>>
    ELSE startThrow(DEFAULT_THROW_STRENGTH, seed)

\* the continuation of executeThrow after `await onShadowThrowNeeded(throwStrength)`
executeThrowResume ==
    /\ microtasks # <<>>
    /\ LET shadowRecording == Head(microtasks).value
       IN  /\ worldGravity' = IF sceneReady THEN THROW_GRAVITY ELSE worldGravity
           /\ cubes' = [i \in 1..Len(cubes) |->
                           [cubes[i] EXCEPT !.type = "DYNAMIC", !.sleeping = FALSE]]
           /\ playbackStateRef' =
                  [isPlayingBack |-> TRUE, recording |-> <<shadowRecording>>, elapsed |-> 0,
                   isRigged |-> shadowRecording.isRigged,
                   riggedResults |->
                       IF shadowRecording.isRigged /\ Len(shadowRecording.desiredResults) > 0
                       THEN shadowRecording.desiredResults
                       ELSE shadowRecording.finalResults]
           /\ rafQueue' = Append(rafQueue, Callback("updatePlayback", 0))
    /\ microtasks' = Tail(microtasks)
    /\ op' = "executeThrowResume"
    /\ UNCHANGED <<sceneReady, shadowCubes, shadowRest, randomSeed, shadowGravity,
                   isThrowingRef, floatingModeRef, rollResults, shadowRecordingRef,
                   currentRiggingRef, frameQueue, timers, historyVars, replayVars, rigVars, slerpVars>>

(***************************************************************************)
(* The shadow simulation driver and the frame recorder                     *)
(***************************************************************************)
\* recordShadowFrame: the frame list after recording the bodies
RecordedFrames(frames, bodies) ==
    Append(frames,
           PhysicsFrame(Len(frames) * RECORD_INTERVAL,
                        [i \in 1..Len(bodies) |->
                            DieState(bodies[i].position, bodies[i].quaternion,
                                     bodies[i].velocity, bodies[i].angularVelocity)]))

\* a recorder that hands every frame it records to the main dice
StreamedCubesAlways(callback, bodies, frame) ==
    [i \in 1..Len(bodies) |->
        [bodies[i] EXCEPT !.position = frame.diceStates[i].position,
                          !.quaternion = frame.diceStates[i].quaternion,
                          !.velocity = frame.diceStates[i].velocity,
                          !.angularVelocity = frame.diceStates[i].angularVelocity]]

\* the end of recordShadowFrame: streamingCallback(frame) when a callback is set; the
\* visible bodies after it
StreamedCubes(callback, bodies, frame) ==
    IF callback = "null" THEN bodies ELSE StreamedCubesAlways(callback, bodies, frame)

\* the rigging captured when the throw was requested, instead of a fresh read
RiggingAtThrowStart == riggingAtThrow

\* currentRiggingRef.current as rigRecording reads it when it runs
CurrentRigging == currentRiggingRef

\* a completion that leaves the recording flag set
RecordingLeftSet == TRUE

\* shadowRecordingRef.current.isRecording = false, the flag completion leaves behind
RecordingAfterCompletion == FALSE

\* completeShadowRecording, entered with the shadow bodies at `bodies` and the frame
\* list at `frames`; the rigging goes on drawing from the Math.random() stream
completeShadowRecording(bodies, frames, visible) ==
    IF ~shadowRecordingRef.isRecording
    THEN /\ shadowCubes' = bodies
         /\ cubes' = visible
         /\ UNCHANGED <<shadowRecordingRef, microtasks, timers>>
    ELSE \E natural \in
                {ShadowRecording(RecordedFrames(frames, bodies),
                                 [i \in 1..Len(bodies) |-> getShadowDiceValue(bodies[i].quaternion)],
                                 TRUE, FALSE, <<>>)} :
         \E recording \in {rigRecording(natural, CurrentRigging, randomSeed)} :
             /\ cubes' = StreamedCubes(shadowRecordingRef.streamingCallback, visible,
                                       natural.frames[Len(natural.frames)])
             /\ shadowRecordingRef' =
                    [isRecording |-> RecordingAfterCompletion, frames |-> natural.frames,
                     resolvePromise |-> 0,
                     streamingCallback |-> "null"]
             /\ shadowCubes' = [i \in 1..Len(bodies) |->
                                   [bodies[i] EXCEPT !.type = "STATIC", !.sleeping = TRUE]]
             /\ microtasks' =
                    IF shadowRecordingRef.resolvePromise # 0
                    THEN Append(microtasks,
                                Continuation(shadowRecordingRef.resolvePromise, recording))
                    ELSE microtasks
             /\ timers' = Append(timers, Timer("resetShadowDiceToFloatingState", 1000, <<>>))

\* a simulation that is never cut off
BudgetNeverExhausted(frameCount) == FALSE

\* frameCount >= MAX_SIMULATION_FRAMES
BudgetExhausted(frameCount) == frameCount >= MAX_SIMULATION_FRAMES

\* one call of fastSimulate by the animation frame; frameCount is the closure's counter
fastSimulate ==
    /\ microtasks = <<>>
    /\ frameQueue # <<>>
    /\ Head(frameQueue).fn = "fastSimulate"
    /\ frameQueue' = Tail(frameQueue)
    /\ op' = "fastSimulate"
    /\ LET frameCount == Head(frameQueue).frameCount
       IN  IF ~shadowRecordingRef.isRecording \/ BudgetExhausted(frameCount)
           THEN /\ completeShadowRecording(shadowCubes, shadowRecordingRef.frames, cubes)
                /\ UNCHANGED rafQueue
           ELSE \E first \in {WorldStep(shadowCubes, shadowGravity, shadowRest)} :
                \E frames \in {RecordedFrames(shadowRecordingRef.frames, first)} :
                \E visible \in {StreamedCubes(shadowRecordingRef.streamingCallback, cubes,
                                               frames[Len(frames)])} :
                \E bodies \in {WorldSteps(first, shadowGravity, shadowRest, STEPS_PER_FRAME - 1)} :
                    IF \A i \in 1..Len(bodies) : Settled(bodies[i])
                    THEN /\ completeShadowRecording(bodies, frames, visible)
                         /\ UNCHANGED rafQueue
                    ELSE /\ shadowCubes' = bodies
                         /\ cubes' = visible
                         /\ shadowRecordingRef' = [shadowRecordingRef EXCEPT !.frames = frames]
                         /\ rafQueue' = Append(rafQueue, Callback("fastSimulate", frameCount + 1))
                         /\ UNCHANGED <<microtasks, timers>>
    /\ UNCHANGED <<sceneReady, shadowRest, randomSeed, worldGravity, shadowGravity,
                   isThrowingRef, floatingModeRef, rollResults, playbackStateRef,
                   currentRiggingRef, historyVars, replayVars, rigVars, slerpVars>>

\* the delayed callback of completeShadowRecording: resetShadowDiceToFloatingState
resetShadowDiceToFloatingState ==
    IF ~sceneReady \/ Len(shadowCubes) = 0
    THEN UNCHANGED <<shadowCubes, shadowGravity>>
    ELSE /\ shadowCubes' =
                [i \in 1..Len(shadowCubes) |->
                    Body(<<-2 * PS + (i - 1) * 2 * PS, 7 * PS + 2 * PS, 2 * PS>>,
                         shadowCubes[i].quaternion, ZeroVec, ZeroVec, "DYNAMIC", FALSE)]
         /\ shadowGravity' = FLOAT_GRAVITY

(***************************************************************************)
(* The playback driver (part_014)                                          *)
(***************************************************************************)
Lerp(a, b, t) == a + RDiv((b - a) * t, QS)
VLerp(a, b, t) == <<Lerp(a[1], b[1], t), Lerp(a[2], b[2], t), Lerp(a[3], b[3], t)>>

\* THREE.Quaternion.slerp(qb, t), t in thousandths
ThreeSlerp(qa, qb, t) ==
    IF t = 0 THEN qa
    ELSE IF t = QS THEN qb
    ELSE Strict(RDiv(QDot(qa, qb), QS), LAMBDA dot :
         Strict(IF dot < 0 THEN QNeg(qb) ELSE qb, LAMBDA b :
         Strict(Abs(dot), LAMBDA cosHalfTheta :
         IF cosHalfTheta >= QS THEN qa
         ELSE Strict(ISqrt(QS * QS - cosHalfTheta * cosHalfTheta), LAMBDA sinHalfTheta :
              Strict(ACos(cosHalfTheta), LAMBDA halfTheta :
              IF sinHalfTheta < 1
              THEN QNormalize(<<Lerp(qa[1], b[1], t), Lerp(qa[2], b[2], t),
                                Lerp(qa[3], b[3], t), Lerp(qa[4], b[4], t)>>)
              ELSE Strict(RDiv(Sin(RDiv((QS - t) * halfTheta, QS)) * QS, sinHalfTheta),
                          LAMBDA ratioA :
                   Strict(RDiv(Sin(RDiv(t * halfTheta, QS)) * QS, sinHalfTheta),
                          LAMBDA ratioB :
                       <<RDiv(qa[1] * ratioA + b[1] * ratioB, QS),
                         RDiv(qa[2] * ratioA + b[2] * ratioB, QS),
                         RDiv(qa[3] * ratioA + b[3] * ratioB, QS),
                         RDiv(qa[4] * ratioA + b[4] * ratioB, QS)>>)))))))

\* a playback that snaps to the nearer of the two frames
interpolateFrameNearest(frame1, frame2, t) == IF 2 * t < QS THEN frame1 ELSE frame2

interpolateFrame(frame1, frame2, t) ==
    PhysicsFrame(
        Lerp(frame1.timestamp, frame2.timestamp, t),
        [index \in 1..Len(frame1.diceStates) |->
            LET state1 == frame1.diceStates[index]
                state2 == frame2.diceStates[index]
            IN  DieState(VLerp(state1.position, state2.position, t),
                         ThreeSlerp(state1.quaternion, state2.quaternion, t),
                         VLerp(state1.velocity, state2.velocity, t),
                         VLerp(state1.angularVelocity, state2.angularVelocity, t))])

\* applyRecordedFrame: the visible roster after the frame is written to it
applyRecordedFrame(bodies, frame) ==
    [index \in 1..Len(bodies) |->
        IF index <= Len(frame.diceStates)
        THEN LET state == frame.diceStates[index]
             IN  Body(state.position, state.quaternion, state.velocity, state.angularVelocity,
                      bodies[index].type, FALSE)
        ELSE bodies[index]]

\* the for loop of updatePlayback: the first i (from 0) with
\* frames[i].timestamp <= elapsedTime < frames[i + 1].timestamp, or -1
RECURSIVE FindFrameIndex(_, _, _)
FindFrameIndex(frames, elapsedTime, i) ==
    IF i >= Len(frames) - 1 THEN -1
    ELSE IF elapsedTime >= frames[i + 1].timestamp /\ elapsedTime < frames[i + 2].timestamp
         THEN i
         ELSE FindFrameIndex(frames, elapsedTime, i + 1)

\* the playback has reached the last frame (no grace window)
PlaybackOverWithoutGrace(playback) ==
    LET frames == playback.recording[1].frames
    IN  /\ FindFrameIndex(frames, playback.elapsed, 0) = -1
        /\ playback.elapsed >= frames[Len(frames)].timestamp

\* the playback has run past the last frame and its grace window
PlaybackOver(playback) ==
    LET frames == playback.recording[1].frames
    IN  /\ FindFrameIndex(frames, playback.elapsed, 0) = -1
        /\ playback.elapsed >= frames[Len(frames)].timestamp + 100

\* the frame updatePlayback writes to the visible dice at the current elapsed time
PlaybackFrame(playback) ==
    Strict(playback.recording[1].frames, LAMBDA frames :
    Strict(FindFrameIndex(frames, playback.elapsed, 0), LAMBDA currentFrameIndex :
        IF currentFrameIndex # -1
        THEN LET frame1 == frames[currentFrameIndex + 1]
                 frame2 == frames[currentFrameIndex + 2]
                 timeDiffBetweenFrames == frame2.timestamp - frame1.timestamp
                 t == IF timeDiffBetweenFrames > 0
                      THEN RDiv((playback.elapsed - frame1.timestamp) * QS, timeDiffBetweenFrames)
                      ELSE 0
             IN  interpolateFrame(frame1, frame2, Max(0, Min(QS, t)))
        ELSE IF playback.elapsed >= frames[Len(frames)].timestamp THEN frames[Len(frames)]
        ELSE frames[1]))

\* results read off the dice of the first frame of the Recording
ReportedResultsAtStart(playback) ==
    [i \in 1..Len(playback.recording[1].frames[1].diceStates) |->
        getShadowDiceValue(playback.recording[1].frames[1].diceStates[i].quaternion)]

\* a finalization that reports the total of the three dice in place of their faces
ReportedTotal(playback) ==
    IF playback.isRigged /\ Len(playback.riggedResults) > 0
    THEN <<playback.riggedResults[1] + playback.riggedResults[2] + playback.riggedResults[3]>>
    ELSE <<playback.recording[1].finalResults[1] + playback.recording[1].finalResults[2]
              + playback.recording[1].finalResults[3]>>

\* finalResults as the finalization of updatePlayback passes them to setRollResults
ReportedResults(playback) ==
    IF playback.isRigged /\ Len(playback.riggedResults) > 0
    THEN playback.riggedResults
    ELSE playback.recording[1].finalResults

updatePlayback ==
    /\ microtasks = <<>>
    /\ frameQueue # <<>>
    /\ Head(frameQueue).fn = "updatePlayback"
    /\ frameQueue' = Tail(frameQueue)
    /\ op' = "updatePlayback"
    /\ LET playback == playbackStateRef
       IN  IF ~playback.isPlayingBack \/ playback.recording = <<>>
              \/ Len(playback.recording[1].frames) = 0
           THEN UNCHANGED <<cubes, rafQueue, timers>>
           ELSE \E frame \in {PlaybackFrame(playback)} :
                \E applied \in {applyRecordedFrame(cubes, frame)} :
                    IF PlaybackOver(playback)
                    THEN /\ cubes' = [i \in 1..Len(applied) |->
                                         [applied[i] EXCEPT !.type = "STATIC",
                                                            !.velocity = ZeroVec,
                                                            !.angularVelocity = ZeroVec]]
                         /\ timers' =
                                Append(timers,
                                       Timer("finalize", 50, ReportedResults(playback)))
                         /\ UNCHANGED rafQueue
                    ELSE /\ cubes' = applied
                         /\ rafQueue' = Append(rafQueue, Callback("updatePlayback", 0))
                         /\ UNCHANGED timers
    /\ UNCHANGED <<sceneReady, shadowCubes, shadowRest, randomSeed, worldGravity,
                   shadowGravity, isThrowingRef, floatingModeRef, rollResults,
                   shadowRecordingRef, playbackStateRef, currentRiggingRef, microtasks,
                   historyVars, replayVars, rigVars, slerpVars>>

(***************************************************************************)
(* The render loop, timers and the animation-frame clock                   *)
(***************************************************************************)
\* the boundary check of animate: a die that left the scene goes back to its initial position
BoundaryChecked(bodies) ==
    [i \in 1..Len(bodies) |->
        IF \/ Abs(bodies[i].position[1]) > 20 * PS
           \/ bodies[i].position[2] < -20 * PS
           \/ bodies[i].position[2] > 30 * PS
           \/ Abs(bodies[i].position[3]) > 20 * PS
        THEN [bodies[i] EXCEPT !.position = <<-2 * PS + (i - 1) * 2 * PS, 7 * PS, 2 * PS>>,
                               !.velocity = ZeroVec, !.angularVelocity = ZeroVec]
        ELSE bodies[i]]

\* animate: world.step, shadowWorld.step, syncShadowDiceWithMain, boundary check.
\* While the floating animation holds the visible dice they stay in the floating pose.
animate ==
    /\ microtasks = <<>>
    /\ frameQueue # <<>>
    /\ Head(frameQueue).fn = "animate"
    /\ frameQueue' = Tail(frameQueue)
    /\ rafQueue' = Append(rafQueue, Callback("animate", 0))
    /\ op' = "animate"
    /\ \E stepped \in {IF floatingModeRef /\ ~isThrowingRef THEN cubes
                         ELSE WorldStep(cubes, worldGravity, FloorRest)} :
       \E shadowStepped \in {WorldStep(shadowCubes, shadowGravity, shadowRest)} :
           LET synced == ~shadowRecordingRef.isRecording /\ Len(cubes) = Len(shadowCubes)
           IN  /\ cubes' = BoundaryChecked(stepped)
               /\ shadowCubes' = IF synced THEN stepped ELSE shadowStepped
               /\ shadowGravity' = IF synced THEN worldGravity ELSE shadowGravity
    /\ UNCHANGED <<sceneReady, shadowRest, randomSeed, worldGravity, isThrowingRef,
                   floatingModeRef, rollResults, shadowRecordingRef, playbackStateRef,
                   currentRiggingRef, microtasks, timers, historyVars, replayVars, rigVars, slerpVars>>

\* the timer that runs next: the first of those with the least time left, once it is due
RECURSIVE EarliestTimer(_, _, _)
EarliestTimer(ts, i, best) ==
    IF i > Len(ts) THEN best
    ELSE EarliestTimer(ts, i + 1, IF best = 0 \/ ts[i].due < ts[best].due THEN i ELSE best)

DueTimer ==
    LET i == EarliestTimer(timers, 1, 0)
    IN  IF i # 0 /\ timers[i].due <= 0 THEN i ELSE 0

RemoveAt(seq, i) == SubSeq(seq, 1, i - 1) \o SubSeq(seq, i + 1, Len(seq))

\* a finalization that ends the playback but leaves the Recording in the playback state
PlaybackKeptAfterFinalize(playback) == [playback EXCEPT !.isPlayingBack = FALSE]

\* the playback state as the finalization leaves it
PlaybackAfterFinalize(playback) ==
    [playback EXCEPT !.isPlayingBack = FALSE, !.recording = <<>>, !.isRigged = FALSE,
                     !.riggedResults = <<>>, !.elapsed = 0]

\* the setTimeout callback of updatePlayback's finalization
finalizeTimeout ==
    /\ BetweenTasks
    /\ DueTimer # 0
    /\ timers[DueTimer].fn = "finalize"
    /\ rollResults' = timers[DueTimer].finalResults
    /\ isThrowingRef' = FALSE
    /\ playbackStateRef' = PlaybackAfterFinalize(playbackStateRef)
    /\ floatingModeRef' = FALSE
    /\ finalizeCount' = finalizeCount + 1
    /\ timers' = RemoveAt(timers, DueTimer)
    /\ op' = "finalizeTimeout"
    /\ UNCHANGED <<worldVars, shadowRecordingRef, currentRiggingRef, rafQueue, frameQueue,
                   microtasks, rollCount, editCount, riggingAtThrow, replayVars, rigVars, slerpVars>>

\* the setTimeout callback of completeShadowRecording
resetShadowTimeout ==
    /\ BetweenTasks
    /\ DueTimer # 0
    /\ timers[DueTimer].fn = "resetShadowDiceToFloatingState"
    /\ resetShadowDiceToFloatingState
    /\ timers' = RemoveAt(timers, DueTimer)
    /\ op' = "resetShadowTimeout"
    /\ UNCHANGED <<sceneReady, cubes, shadowRest, randomSeed, worldGravity, isThrowingRef,
                   floatingModeRef, rollResults, shadowRecordingRef, playbackStateRef,
                   currentRiggingRef, rafQueue, frameQueue, microtasks, historyVars, replayVars, rigVars, slerpVars>>

\* FrameMs pass and the next animation frame begins: the requested callbacks become the
\* frame's callbacks, and Date.now() - startTime grows for the playback that reads it
Tick ==
    /\ BetweenTasks
    /\ DueTimer = 0
    /\ rafQueue # <<>> \/ timers # <<>>
    /\ frameQueue' = rafQueue
    /\ rafQueue' = <<>>
    /\ timers' = [i \in 1..Len(timers) |-> [timers[i] EXCEPT !.due = @ - FrameMs]]
    /\ playbackStateRef' =
           IF \E i \in 1..Len(rafQueue) : rafQueue[i].fn = "updatePlayback"
           THEN [playbackStateRef EXCEPT !.elapsed = @ + FrameMs]
           ELSE playbackStateRef
    /\ op' = "Tick"
    /\ UNCHANGED <<worldVars, isThrowingRef, floatingModeRef, rollResults, shadowRecordingRef,
                   currentRiggingRef, microtasks, historyVars, replayVars, rigVars, slerpVars>>

Next ==
    \/ SetupScene
    \/ \E preset \in PresetChoices : setSelectedPreset(preset)
    \/ \E value \in {6} : setCustomResults(1, value)
    \/ \E seed \in RandomSeeds : forceThrow(DEFAULT_THROW_STRENGTH, seed)
    \/ \E seed \in RandomSeeds : updateDeadzoneState(seed)
    \/ executeThrowResume
    \/ fastSimulate
    \/ updatePlayback
    \/ animate
    \/ finalizeTimeout
    \/ resetShadowTimeout
    \/ Tick

Spec == Init /\ [][Next]_vars

\* what the browser's event loop runs on its own: due timers, promise continuations,
\* and the callbacks of each animation frame
EventLoop ==
    \/ Tick
    \/ animate
    \/ fastSimulate
    \/ updatePlayback
    \/ executeThrowResume
    \/ finalizeTimeout
    \/ resetShadowTimeout

\* the event loop never stops while something is pending, and React runs the scene
\* effect after mount
FairSpec == Spec /\ WF_vars(SetupScene) /\ WF_vars(EventLoop)

(***************************************************************************)
(* The record-and-replay hook (use-accelerometer-dice.tsx) and the         *)
(* component that drives it.  The frames of a recording are kept by their  *)
(* number only; the flight of the dice between two motion events is the    *)
(* environment's, so whether the dice have settled is an input.            *)
(***************************************************************************)
\* target value arrays a caller hands to the hook: well-formed ones, ones of the wrong
\* length, and ones with a value that is no die face
TargetRequests ==
    {<<1, 2, 3>>, <<>>, <<6, 6>>, <<6, 6, 6, 6>>, <<0, 6, 6>>, <<6, 7, 1>>}

\* motion events recorded per throw in the model
MaxReplayFrames == 11

\* frames of the longest rigged recording in the model
MaxRiggedFrames == 30

\* TRANSITION_FRAMES of the hook
REPLAY_TRANSITION_FRAMES == 15

\* targetValues of the component: [6, 6, 6] or what updateDieValue / setDicePreset left
UiTargetValues == {<<6, 6, 6>>}

\* the scene effect of the component: spawnCubes fills the roster
initScene ==
    /\ ~sceneReady
    /\ sceneReady' = TRUE
    /\ cubes' = [i \in Dice |-> SpawnBody(i - 1)]
    /\ op' = "initScene"
    /\ UNCHANGED <<shadowCubes, shadowRest, randomSeed, worldGravity, shadowGravity,
                   isThrowingRef, floatingModeRef, rollResults, shadowRecordingRef,
                   playbackStateRef, currentRiggingRef, rafQueue, frameQueue, microtasks,
                   timers, historyVars, replayVars, rigVars, slerpVars>>

\* setTargetValues that stores whatever it is handed
setTargetValuesUnchecked(state, values) ==
    [ok |-> TRUE,
     state |-> [state EXCEPT !.targetValues = values,
                             !.isRigged = IF state.recordedFrames > 0 THEN FALSE ELSE @]]

\* setTargetValues(values) on replayState.current: the value returned and the state left
setTargetValues(state, values) ==
    IF Len(values) # Len(cubes)
    THEN [ok |-> FALSE, state |-> state]
    ELSE IF ~(\A i \in DOMAIN values : values[i] >= 1 /\ values[i] <= 6)
         THEN [ok |-> FALSE, state |-> state]
         ELSE [ok |-> TRUE,
               state |-> [state EXCEPT !.targetValues = values,
                                       !.isRigged = IF state.recordedFrames > 0
                                                    THEN FALSE ELSE @]]

\* findSettleIndex by the number of frames: five frames before the last slow frame
\* (the last frame at the latest), or two thirds of the recording when no frame is slow
SettleIndexes(frameCount) ==
    {(frameCount * 2) \div 3, IF frameCount - 6 > 0 THEN frameCount - 6 ELSE 0}

\* whether a rigRecording() call on state goes past its guard
RigsRecording(state) == ~(state.recordedFrames < 10 \/ state.isRigged)

\* rigRecording() of the hook: the frames up to settleIndex are kept or influenced and
\* REPLAY_TRANSITION_FRAMES closing frames follow
hookRigRecording(state, settleIndex) ==
    IF RigsRecording(state)
    THEN [state EXCEPT !.recordedFrames = settleIndex + REPLAY_TRANSITION_FRAMES,
                       !.isRigged = TRUE]
    ELSE state

\* the target values rigRecording() reads when it goes past its guard
RiggedWithAfter(state) == IF RigsRecording(state) THEN <<state.targetValues>> ELSE riggedWith

\* the hook's setTargetValues called from outside (exposed as setDiceTargetValues)
setDiceTargetValues(values) ==
    /\ replayState' = setTargetValues(replayState, values).state
    /\ targetRequest' = values
    /\ op' = IF setTargetValues(replayState, values).ok
             THEN "setTargetValues" ELSE "setTargetValues rejected"
    /\ UNCHANGED <<worldVars, isThrowingRef, floatingModeRef, rollResults, shadowRecordingRef,
                   playbackStateRef, currentRiggingRef, rafQueue, frameQueue, microtasks,
                   timers, historyVars, riggedWith, rigCount, rigVars, slerpVars>>

\* startThrow of the hook: a request in flight is skipped, otherwise the dice are
\* released and a fresh recording is started
hookStartThrow ==
    IF isThrowingRef
    THEN /\ op' = "startThrow skipped"
         /\ UNCHANGED <<worldVars, isThrowingRef, floatingModeRef, rollResults,
                        shadowRecordingRef, playbackStateRef, currentRiggingRef, rafQueue,
                        frameQueue, microtasks, timers, historyVars, replayVars, rigVars, slerpVars>>
    ELSE /\ isThrowingRef' = TRUE
         /\ rollResults' = <<>>
         /\ floatingModeRef' = FALSE
         /\ cubes' = [i \in DOMAIN cubes |-> [cubes[i] EXCEPT !.type = "DYNAMIC"]]
         /\ replayState' = [replayState EXCEPT !.isRigged = FALSE, !.isRecording = TRUE,
                                               !.recordedFrames = 0]
         /\ rigCount' = 0
         /\ op' = "startThrow"
         /\ UNCHANGED <<sceneReady, shadowCubes, shadowRest, randomSeed, worldGravity,
                        shadowGravity, shadowRecordingRef, playbackStateRef,
                        currentRiggingRef, rafQueue, frameQueue, microtasks, timers,
                        historyVars, riggedWith, targetRequest, rigVars, slerpVars>>

\* handleMotionUpdate: a frame is recorded, and checkIfDiceSettled freezes the dice,
\* stops the recording and schedules the results once the dice have settled
handleMotionUpdate(settled) ==
    /\ replayState.recordedFrames < MaxReplayFrames
    /\ IF isThrowingRef /\ ~replayState.isReplaying /\ Len(cubes) # 0 /\ settled
          /\ replayState.isRecording
       THEN /\ cubes' = [i \in DOMAIN cubes |->
                            [cubes[i] EXCEPT !.type = "STATIC", !.velocity = ZeroVec,
                                             !.angularVelocity = ZeroVec]]
            /\ replayState' = [replayState EXCEPT !.recordedFrames = @ + 1,
                                                  !.isRecording = FALSE]
            /\ timers' = Append(timers,
                   Timer("setRollResults", 50,
                         [i \in DOMAIN cubes |-> getShadowDiceValue(cubes[i].quaternion)]))
            /\ op' = "checkIfDiceSettled"
       ELSE /\ replayState.isRecording /\ ~replayState.isReplaying
            /\ replayState' = [replayState EXCEPT !.recordedFrames = @ + 1]
            /\ op' = "recordFrame"
            /\ UNCHANGED <<cubes, timers>>
    /\ UNCHANGED <<sceneReady, shadowCubes, shadowRest, randomSeed, worldGravity,
                   shadowGravity, isThrowingRef, floatingModeRef, rollResults,
                   shadowRecordingRef, playbackStateRef, currentRiggingRef, rafQueue,
                   frameQueue, microtasks, historyVars, riggedWith, targetRequest,
                   rigCount, rigVars, slerpVars>>

\* the timeout of checkIfDiceSettled: the results are published and the throw is over
settledTimeout ==
    /\ timers # <<>>
    /\ Head(timers).fn = "setRollResults"
    /\ rollResults' = Head(timers).finalResults
    /\ isThrowingRef' = FALSE
    /\ floatingModeRef' = FALSE
    /\ timers' = Tail(timers)
    /\ op' = "settledTimeout"
    /\ UNCHANGED <<worldVars, shadowRecordingRef, playbackStateRef, currentRiggingRef,
                   rafQueue, frameQueue, microtasks, historyVars, replayVars, rigVars, slerpVars>>

\* startReplay() on state: a recording that is not rigged yet is rigged when there are
\* target values
hookStartReplay(state, settleIndex) ==
    IF state.recordedFrames = 0
    THEN state
    ELSE [(IF ~state.isRigged /\ Len(state.targetValues) > 0
           THEN hookRigRecording(state, settleIndex)
           ELSE state) EXCEPT !.isReplaying = TRUE]

\* whether startReplay() on state has rigRecording() go past its guard
ReplayRigsRecording(state) ==
    /\ state.recordedFrames # 0
    /\ ~state.isRigged /\ Len(state.targetValues) > 0
    /\ RigsRecording(state)

\* the target values startReplay() has rigRecording() read
RiggedWithAtReplay(state, before) ==
    IF ReplayRigsRecording(state) THEN <<state.targetValues>> ELSE before

\* the component's replay button, from its last timeout on: with rigging enabled the
\* target values of the menu are handed to the hook and the recording is rigged, then
\* the replay starts.  The button's timeouts (50 ms and 200 ms) outlast the 50 ms
\* timeout of checkIfDiceSettled, which therefore has run.
handleReplay(riggingEnabled, uiValues, settleIndex) ==
    /\ timers = <<>>
    /\ replayState.recordedFrames > 0
    /\ settleIndex \in SettleIndexes(replayState.recordedFrames)
    /\ settleIndex + REPLAY_TRANSITION_FRAMES <= MaxRiggedFrames
    /\ replayState' =
          IF riggingEnabled
          THEN hookStartReplay(
                   hookRigRecording(setTargetValues(replayState, uiValues).state, settleIndex),
                   settleIndex)
          ELSE hookStartReplay(replayState, settleIndex)
    /\ riggedWith' =
          IF riggingEnabled
          THEN RiggedWithAtReplay(
                   hookRigRecording(setTargetValues(replayState, uiValues).state, settleIndex),
                   RiggedWithAfter(setTargetValues(replayState, uiValues).state))
          ELSE RiggedWithAtReplay(replayState, riggedWith)
    /\ targetRequest' = IF riggingEnabled THEN uiValues ELSE targetRequest
    /\ rigCount' =
          IF riggingEnabled
          THEN IF RigsRecording(setTargetValues(replayState, uiValues).state)
                  \/ ReplayRigsRecording(
                         hookRigRecording(setTargetValues(replayState, uiValues).state,
                                          settleIndex))
               THEN rigCount + 1 ELSE rigCount
          ELSE IF ReplayRigsRecording(replayState) THEN rigCount + 1 ELSE rigCount
    /\ isThrowingRef' = TRUE
    /\ cubes' = [i \in DOMAIN cubes |->
                    [cubes[i] EXCEPT !.velocity = ZeroVec, !.angularVelocity = ZeroVec]]
    /\ op' = "handleReplay"
    /\ UNCHANGED <<sceneReady, shadowCubes, shadowRest, randomSeed, worldGravity,
                   shadowGravity, floatingModeRef, rollResults, shadowRecordingRef,
                   playbackStateRef, currentRiggingRef, rafQueue, frameQueue, microtasks,
                   timers, historyVars, rigVars, slerpVars>>

\* playbackFrame past the last frame: the replay stops, and a rigged recording
\* publishes the target values as the results
playbackFrame ==
    /\ replayState.isReplaying
    /\ replayState' = [replayState EXCEPT !.isReplaying = FALSE]
    /\ isThrowingRef' = FALSE
    /\ floatingModeRef' = FALSE
    /\ cubes' = [i \in DOMAIN cubes |->
                    [cubes[i] EXCEPT !.type = "STATIC", !.velocity = ZeroVec,
                                     !.angularVelocity = ZeroVec]]
    /\ rollResults' = IF replayState.isRigged
                      THEN replayState.targetValues
                      ELSE [i \in DOMAIN cubes |-> getShadowDiceValue(cubes[i].quaternion)]
    /\ op' = "playbackFrame"
    /\ UNCHANGED <<sceneReady, shadowCubes, shadowRest, randomSeed, worldGravity,
                   shadowGravity, shadowRecordingRef, playbackStateRef, currentRiggingRef,
                   rafQueue, frameQueue, microtasks, timers, historyVars, riggedWith,
                   targetRequest, rigCount, rigVars, slerpVars>>

ReplayNext ==
    \/ initScene
    \/ \E values \in TargetRequests : setDiceTargetValues(values)
    \/ hookStartThrow
    \/ \E settled \in BOOLEAN : handleMotionUpdate(settled)
    \/ settledTimeout
    \/ \E riggingEnabled \in BOOLEAN, uiValues \in UiTargetValues,
          settleIndex \in 0..MaxRiggedFrames :
          handleReplay(riggingEnabled, uiValues, settleIndex)
    \/ playbackFrame

ReplaySpec == Init /\ [][ReplayNext]_vars

(***************************************************************************)
(* rigRecording as a function of the natural Recording it is given         *)
(***************************************************************************)
\* the longest natural Recording handed to rigRecording
MaxNaturalFrames == 52
NaturalLengths == {10, 12, 16, 20, 24, 32, 40, 48, 49, MaxNaturalFrames}
RiggingRequests ==
    {RiggingSettings("custom", <<6, 6, 6>>), RiggingSettings("custom", <<1, 2, 3>>),
     RiggingSettings("custom", <<4, 4, 4>>), RiggingSettings("jackpot", <<4, 4, 4>>),
     RiggingSettings("snake-eyes", <<4, 4, 4>>), RiggingSettings("lucky", <<4, 4, 4>>)}

\* frame k (from 0) of a throw of `length` frames as recordShadowFrame stores it: the
\* dice rise and fall on an arc; their velocities decay to rest when the throw settles,
\* and stay at 3.0 when the simulation budget runs out on dice that are still rolling
NaturalFrame(k, length, settles) ==
    PhysicsFrame(
        k * RECORD_INTERVAL,
        [d \in 1..DieCount |->
            DieState(<<-2 * PS + (d - 1) * 2 * PS,
                       PS + (24 * PS * k * (length - 1 - k)) \div ((length - 1) * (length - 1)),
                       2 * PS>>,
                     <<0, 0, 0, QS>>,
                     IF settles THEN <<0, 0, (6 * PS * (length - 1 - k)) \div (length - 1)>>
                     ELSE <<0, 0, 3 * PS>>,
                     IF settles THEN <<(6 * PS * (length - 1 - k)) \div (length - 1), 0, 0>>
                     ELSE <<3 * PS, 0, 0>>)])

\* the Recording completeShadowRecording builds from such a throw
NaturalThrow(length, settles) ==
    ShadowRecording([k \in 1..length |-> NaturalFrame(k - 1, length, settles)],
                    [d \in 1..DieCount |-> getShadowDiceValue(<<0, 0, 0, QS>>)],
                    TRUE, FALSE, <<>>)

\* completeShadowRecording has a natural Recording ready for rigRecording
recordNatural(length, settles) ==
    /\ rigInput = <<>>
    /\ rigInput' = <<NaturalThrow(length, settles)>>
    /\ rigOutput' = <<>>
    /\ op' = "recordNatural"
    /\ UNCHANGED <<worldVars, isThrowingRef, floatingModeRef, rollResults, shadowRecordingRef,
                   playbackStateRef, currentRiggingRef, rafQueue, frameQueue, microtasks,
                   timers, historyVars, replayVars, slerpVars>>

\* rigRecording(recording) under the rigging the operator menu holds
rigNatural(rigging, seed) ==
    /\ rigInput # <<>>
    /\ rigOutput = <<>>
    /\ rigOutput' = <<rigRecording(rigInput[1], rigging, seed)>>
    /\ currentRiggingRef' = rigging
    /\ op' = "rigRecording"
    /\ UNCHANGED <<worldVars, isThrowingRef, floatingModeRef, rollResults, shadowRecordingRef,
                   playbackStateRef, rafQueue, frameQueue, microtasks, timers, historyVars,
                   replayVars, rigInput, slerpVars>>

RigNext ==
    \/ \E length \in NaturalLengths, settles \in BOOLEAN : recordNatural(length, settles)
    \/ \E rigging \in RiggingRequests, seed \in RandomSeeds : rigNatural(rigging, seed)

RigSpec == Init /\ [][RigNext]_vars

(***************************************************************************)
(* slerpQuaternions as a function of its arguments                         *)
(***************************************************************************)
\* unit quaternions <<x, y, z, w>> in thousandths: the identity, quarter, third and half
\* turns about the axes and the diagonal, two oblique ones, and the negative of each
HalfOfUnitQuaternions ==
    {<<0, 0, 0, QS>>, <<707, 0, 0, 707>>, <<0, 707, 0, 707>>, <<0, 0, 707, 707>>,
     <<QS, 0, 0, 0>>, <<500, 500, 500, 500>>, <<600, 0, 800, 0>>, <<0, 280, 0, -960>>}
UnitQuaternions == HalfOfUnitQuaternions \cup {QNeg(q) : q \in HalfOfUnitQuaternions}

\* the interpolation parameters, in thousandths
SlerpParameters == {0, 1, 250, 500, 750, 999, QS}

\* one call slerpQuaternions(qa, qb, t)
callSlerp(qa, qb, t) ==
    /\ slerpInput = <<>>
    /\ slerpInput' = <<qa, qb, t>>
    /\ slerpOutput' = <<slerpQuaternions(qa, qb, t)>>
    /\ op' = "slerpQuaternions"
    /\ UNCHANGED <<worldVars, isThrowingRef, floatingModeRef, rollResults, shadowRecordingRef,
                   playbackStateRef, currentRiggingRef, rafQueue, frameQueue, microtasks,
                   timers, historyVars, replayVars, rigVars>>

SlerpNext ==
    \E qa \in UnitQuaternions, qb \in UnitQuaternions, t \in SlerpParameters :
        callSlerp(qa, qb, t)

SlerpSpec == Init /\ [][SlerpNext]_vars

(***************************************************************************)
(* Properties                                                              *)
(***************************************************************************)
\* a step that handles a throw request (accepted or ignored)
ThrowRequestStep == op' \in {"executeThrow", "executeThrow ignored"}

\* C1: while a throw is in flight (isThrowingRef set on acceptance, cleared by the
\* finalization), a throw request from startThrow, forceThrow or the deadzone timer changes
\* neither shadow world nor recording buffer nor promise resolver nor playback, and leaves
\* nothing behind in the frame, microtask or timer queues that would run it later
C1_RequestInFlightIsNoOp ==
    [][(isThrowingRef /\ ThrowRequestStep) =>
           /\ op' = "executeThrow ignored"
           /\ UNCHANGED <<worldVars, isThrowingRef, rollResults, shadowRecordingRef,
                          playbackStateRef, currentRiggingRef, rafQueue, frameQueue,
                          microtasks, timers, historyVars>>]_vars

\* a request was ignored while the shadow simulation of the running roll was recording
C1_Witness ==
    /\ op = "executeThrow ignored"
    /\ isThrowingRef
    /\ shadowRecordingRef.isRecording
    /\ shadowRecordingRef.resolvePromise = rollCount

\* the continuation of executeThrow receives a Recording without frames
EmptyRecordingResolved == microtasks # <<>> /\ Len(Head(microtasks).value.frames) = 0

\* C2: when the shadow throw resolves with a Recording without frames, executeThrow starts
\* no playback (no playback state, no updatePlayback callback) and throws the visible dice
\* directly under throw gravity
C2_EmptyRecordingFallsBackToDirectThrow ==
    [][(EmptyRecordingResolved /\ op' = "executeThrowResume") =>
           /\ ~playbackStateRef'.isPlayingBack
           /\ \A i \in 1..Len(rafQueue') : rafQueue'[i].fn # "updatePlayback"
           /\ \A i \in 1..Len(cubes') : cubes'[i].velocity # ZeroVec]_vars

\* C3: every accepted throw is finalized: isThrowingRef becomes false again and the roll
\* has reported its results
C3_EveryThrowReturnsToIdle ==
    isThrowingRef ~> (~isThrowingRef /\ Len(rollResults) > 0)

\* the Recordings handed over by the shadow throw: resolved and waiting for the
\* continuation of executeThrow, or being played back
DeliveredRecordings ==
    {microtasks[i].value : i \in 1..Len(microtasks)}
        \cup (IF playbackStateRef.recording = <<>> THEN {}
              ELSE {playbackStateRef.recording[1]})

StrictlyIncreasing(frames) ==
    \A i \in 1..(Len(frames) - 1) : frames[i].timestamp < frames[i + 1].timestamp

\* C4: the frames in the recorder's buffer and the frames of every delivered Recording,
\* rigged or natural, have strictly increasing timestamps
C4_TimestampsStrictlyIncreasing ==
    /\ StrictlyIncreasing(shadowRecordingRef.frames)
    /\ \A r \in DeliveredRecordings : StrictlyIncreasing(r.frames)

\* the face readout of every die state of a frame
FrameValues(frame) ==
    [d \in 1..Len(frame.diceStates) |-> getShadowDiceValue(frame.diceStates[d].quaternion)]

\* the timers of the finalization of a playback
FinalizeTimers == {i \in 1..Len(timers) : timers[i].fn = "finalize"}

\* C5: the last frame of every rigged Recording reads, die by die, as the desired
\* values, and when the playback of a rigged Recording has ended the faces the visible
\* dice show are the results that will be reported
C5_RiggedDiceRestOnDesiredValues ==
    /\ \A r \in DeliveredRecordings :
           r.isRigged => FrameValues(r.frames[Len(r.frames)]) = r.desiredResults
    /\ \A i \in FinalizeTimers :
           playbackStateRef.isRigged =>
               [d \in 1..Len(cubes) |-> getShadowDiceValue(cubes[d].quaternion)]
                   = timers[i].finalResults

\* a rigged Recording with three different desired faces is being played back
C5_Witness ==
    /\ playbackStateRef.recording # <<>>
    /\ playbackStateRef.recording[1].isRigged
    /\ Cardinality({playbackStateRef.recording[1].desiredResults[d] : d \in Dice}) = DieCount
    /\ FinalizeTimers # {}

\* the step in which completeShadowRecording closes the running recording
CompletionStep == shadowRecordingRef.isRecording /\ ~shadowRecordingRef'.isRecording

\* the Recording the promise is resolved with in a completion step
ResolvedRecording == microtasks'[Len(microtasks')].value

ValidDesiredResults(values) ==
    /\ Len(values) = DieCount
    /\ \A d \in 1..Len(values) : values[d] \in FaceValues

\* C6: when a recording of at least 10 frames is completed while the rigging asks for a
\* valid array of desired results, the Recording the promise is resolved with has
\* isRigged set and finalResults equal to the desired results
C6_RiggedResultsAreDesiredResults ==
    [][(/\ CompletionStep
        /\ Len(shadowRecordingRef'.frames) >= 10
        /\ currentRiggingRef.preset # "off"
        /\ ValidDesiredResults(DesiredResultsOf(currentRiggingRef, randomSeed)))
       => /\ Len(microtasks') = Len(microtasks) + 1
          /\ ResolvedRecording.isRigged
          /\ ResolvedRecording.finalResults = DesiredResultsOf(currentRiggingRef, randomSeed)]_vars

\* a rigged Recording was resolved whose results differ from what the dice rolled
C6_Witness ==
    /\ op = "fastSimulate"
    /\ microtasks # <<>>
    /\ Head(microtasks).value.isRigged
    /\ Len(shadowRecordingRef.frames) >= 10
    /\ Head(microtasks).value.finalResults
           # FrameValues(shadowRecordingRef.frames[Len(shadowRecordingRef.frames)])

\* C7: a playback is finalized once, and not before elapsed has passed the last frame's
\* timestamp by 100 ms: the step of updatePlayback that sees this makes the visible dice
\* static, sets the single finalization timer and requests no further frame; the timer
\* reports results and completion once
C7_FinalizesExactlyOnce ==
    /\ [](/\ finalizeCount + Cardinality(FinalizeTimers) <= 1
          /\ FinalizeTimers # {} =>
                 /\ playbackStateRef.recording # <<>>
                 /\ LET frames == playbackStateRef.recording[1].frames
                    IN  playbackStateRef.elapsed >= frames[Len(frames)].timestamp + 100
                 /\ \A i \in 1..Len(cubes) :
                        /\ cubes[i].type = "STATIC"
                        /\ cubes[i].velocity = ZeroVec
                        /\ cubes[i].angularVelocity = ZeroVec
                 /\ \A i \in 1..Len(rafQueue) : rafQueue[i].fn # "updatePlayback"
                 /\ \A i \in 1..Len(frameQueue) : frameQueue[i].fn # "updatePlayback")
    /\ [][(/\ op' = "updatePlayback"
           /\ playbackStateRef.isPlayingBack
           /\ playbackStateRef.recording # <<>>
           /\ Len(playbackStateRef.recording[1].frames) > 0
           /\ playbackStateRef.elapsed
                  >= playbackStateRef.recording[1].frames[
                         Len(playbackStateRef.recording[1].frames)].timestamp + 100)
          => Cardinality({i \in 1..Len(timers') : timers'[i].fn = "finalize"}) = 1]_vars
    /\ [][op' = "finalizeTimeout" =>
              /\ finalizeCount' = 1
              /\ ~isThrowingRef'
              /\ rollResults' # <<>>]_vars

\* a roll was finalized and animation frames went on arriving afterwards
C7_Witness ==
    /\ finalizeCount = 1
    /\ ~isThrowingRef
    /\ rollResults # <<>>
    /\ op = "animate"

\* C8: the Recording is rigged from the preset and custom values that
\* currentRiggingRef holds when the recording is completed: with the desired results
\* they give, or not at all when they give none
C8_RiggedWithValuesAtRiggingTime ==
    [][CompletionStep =>
           LET desiredResults == DesiredResultsOf(currentRiggingRef, randomSeed)
           IN  /\ Len(microtasks') = Len(microtasks) + 1
               /\ IF currentRiggingRef.preset # "off" /\ Len(desiredResults) > 0
                     /\ Len(shadowRecordingRef'.frames) >= MIN_RIG_FRAMES
                  THEN /\ ResolvedRecording.isRigged
                       /\ ResolvedRecording.desiredResults = desiredResults
                       /\ ResolvedRecording.finalResults = desiredResults
                  ELSE ~ResolvedRecording.isRigged]_vars

\* the operator changed the rigging while the shadow simulation was running, and the
\* Recording carries the desired results of the new setting
C8_Witness ==
    /\ op = "fastSimulate"
    /\ microtasks # <<>>
    /\ Head(microtasks).value.isRigged
    /\ riggingAtThrow # currentRiggingRef
    /\ riggingAtThrow.preset # "off"
    /\ Head(microtasks).value.desiredResults # DesiredResultsOf(riggingAtThrow, randomSeed)
    /\ Head(microtasks).value.desiredResults = DesiredResultsOf(currentRiggingRef, randomSeed)

\* the callbacks of fastSimulate waiting in the animation-frame queues
FastSimulateCallbacks ==
    {rafQueue[i] : i \in {j \in 1..Len(rafQueue) : rafQueue[j].fn = "fastSimulate"}}
        \cup {frameQueue[i] : i \in {j \in 1..Len(frameQueue) : frameQueue[j].fn = "fastSimulate"}}

\* C10: fastSimulate runs at most MAX_SIMULATION_FRAMES iterations for one throw; the
\* call that finds the budget used up steps no further, requests no further frame, and
\* resolves the promise with a complete Recording of the frames recorded so far and
\* the frame of the cutoff
C10_SimulationStopsAtBudget ==
    /\ [](/\ \A c \in FastSimulateCallbacks : c.frameCount <= MAX_SIMULATION_FRAMES
          /\ Len(shadowRecordingRef.frames) <= MAX_SIMULATION_FRAMES + 1)
    /\ [][(/\ op' = "fastSimulate"
           /\ shadowRecordingRef.isRecording
           /\ Head(frameQueue).frameCount >= MAX_SIMULATION_FRAMES)
          => /\ ~shadowRecordingRef'.isRecording
             /\ rafQueue' = rafQueue
             /\ Len(shadowRecordingRef'.frames) = Len(shadowRecordingRef.frames) + 1
             /\ SubSeq(shadowRecordingRef'.frames, 1, Len(shadowRecordingRef.frames))
                    = shadowRecordingRef.frames
             /\ Len(microtasks') = Len(microtasks) + 1
             /\ ResolvedRecording.isComplete
             /\ microtasks'[Len(microtasks')].promise = shadowRecordingRef.resolvePromise
             /\ Len(ResolvedRecording.frames) > 0
             /\ ~ResolvedRecording.isRigged
                    => ResolvedRecording.frames = shadowRecordingRef'.frames]_vars

\* the budget ran out on dice that had not settled, and the promise was resolved
C10_Witness ==
    /\ op = "fastSimulate"
    /\ microtasks # <<>>
    /\ Head(microtasks).value.isComplete
    /\ Len(shadowRecordingRef.frames) = MAX_SIMULATION_FRAMES + 1
    /\ \E i \in 1..Len(shadowCubes) : ~Settled([shadowCubes[i] EXCEPT !.sleeping = FALSE])

\* a target value array the hook must not accept: its length is not the number of
\* dice, or one of its values is no die face
InvalidRequest(values) ==
    \/ Len(values) # Len(cubes)
    \/ \E i \in DOMAIN values : values[i] < 1 \/ values[i] > 6

\* a step in which setTargetValues was called from outside
TargetRequestStep == op' \in {"setTargetValues", "setTargetValues rejected"}

\* C9: a rigging request whose length differs from the die count, or that holds a face
\* value outside 1..6, is rejected: the stored target values and the rigging state stay
\* as they were (nothing is clamped), and whenever a recording is rigged, the values the
\* rigging reads are not such an array
C9_InvalidRequestIsRejected ==
    [][/\ (TargetRequestStep /\ InvalidRequest(targetRequest'))
          => (op' = "setTargetValues rejected" /\ UNCHANGED <<replayState, riggedWith>>)
       /\ (riggedWith' # riggedWith)
          => (riggedWith' # <<>> /\ ~InvalidRequest(riggedWith'[1]))]_vars

\* an out-of-range request of the right length was rejected while a rigged recording
\* of the three dice exists
C9_Witness ==
    /\ op = "setTargetValues rejected"
    /\ Len(targetRequest) = Len(cubes)
    /\ InvalidRequest(targetRequest)
    /\ sceneReady
    /\ replayState.isRigged
    /\ riggedWith # <<>>

\* C11: no Recording is reused across rolls.  An accepted throw that starts a shadow
\* simulation starts it on an empty frame buffer under the roll's own promise; the
\* buffer only grows by the frames fastSimulate records; the Recording is resolved under
\* the running roll's promise; executeThrow's continuation takes the Recording of the
\* running roll's promise into a playback state that held none; the playback state
\* gets and loses its Recording in no other step; the visible dice are written by
\* updatePlayback only from the Recording held; and the finalization leaves the
\* playback state, and so the idle controller, without a Recording
C11_NoRecordingReusedAcrossRolls ==
    [][/\ (op' = "executeThrow" /\ shadowRecordingRef'.isRecording)
          => /\ shadowRecordingRef'.frames = <<>>
             /\ shadowRecordingRef'.resolvePromise = rollCount'
       /\ (shadowRecordingRef'.frames # shadowRecordingRef.frames)
          => \/ op' = "executeThrow"
             \/ /\ op' = "fastSimulate"
                /\ shadowRecordingRef.isRecording
                /\ Len(shadowRecordingRef'.frames) > Len(shadowRecordingRef.frames)
                /\ SubSeq(shadowRecordingRef'.frames, 1, Len(shadowRecordingRef.frames))
                       = shadowRecordingRef.frames
       /\ CompletionStep
          => /\ microtasks'[Len(microtasks')].promise = rollCount
             /\ ~ResolvedRecording.isRigged
                    => ResolvedRecording.frames = shadowRecordingRef'.frames
       /\ (op' = "executeThrowResume")
          => /\ Head(microtasks).promise = rollCount
             /\ playbackStateRef.recording = <<>>
             /\ playbackStateRef'.recording = <<Head(microtasks).value>>
       /\ (playbackStateRef'.recording # playbackStateRef.recording)
          => op' \in {"executeThrowResume", "finalizeTimeout"}
       /\ (op' = "updatePlayback" /\ cubes' # cubes)
          => /\ playbackStateRef.recording # <<>>
             /\ cubes' \in {applyRecordedFrame(cubes, PlaybackFrame(playbackStateRef)),
                            [i \in 1..Len(cubes) |->
                                [applyRecordedFrame(cubes, PlaybackFrame(playbackStateRef))[i]
                                    EXCEPT !.type = "STATIC", !.velocity = ZeroVec,
                                           !.angularVelocity = ZeroVec]]}
       /\ (op' = "finalizeTimeout" \/ ~isThrowingRef')
          => playbackStateRef'.recording = <<>>]_vars

\* the second roll's Recording is being played back after the first roll was finalized
C11_Witness ==
    /\ rollCount = 2
    /\ op = "updatePlayback"
    /\ playbackStateRef.isPlayingBack
    /\ playbackStateRef.recording # <<>>
    /\ Len(playbackStateRef.recording[1].frames) > 1
    /\ playbackStateRef.elapsed > 0
    /\ shadowRecordingRef.resolvePromise = 0

\* C12: the frames of a recording go through the rigging at most once, whatever
\* setTargetValues, rigRecording and startReplay calls are made on it
C12_RiggedAtMostOnce == rigCount <= 1


RollPhase ==
    IF ~isThrowingRef THEN "Idle"
    ELSE IF FinalizeTimers # {} THEN "Finalizing"
    ELSE IF playbackStateRef.isPlayingBack THEN "Playing-Back"
    ELSE IF shadowRecordingRef.isRecording /\ shadowRecordingRef.frames = <<>>
         THEN "Recording-Requested"
    ELSE "Awaiting-Shadow-Result"

\* the phase changes of one roll; a request the shadow throw answers at once is
\* already awaited when executeThrow suspends
PhaseSteps ==
    {<<"Idle", "Recording-Requested">>, <<"Idle", "Awaiting-Shadow-Result">>,
     <<"Recording-Requested", "Awaiting-Shadow-Result">>,
     <<"Awaiting-Shadow-Result", "Playing-Back">>,
     <<"Playing-Back", "Finalizing">>, <<"Finalizing", "Idle">>}

\* C14: a roll goes through Idle, Recording-Requested, Awaiting-Shadow-Result,
\* Playing-Back, Finalizing and Idle in this order only: a roll starts from Idle, the
\* playback starts only in the continuation of the resolved promise of this roll, the
\* finalization starts only from Playing-Back, Idle is reached again only by the
\* finalization, and no phase is entered again or out of order
C14_PhasesInOrder ==
    [][/\ RollPhase' # RollPhase => <<RollPhase, RollPhase'>> \in PhaseSteps
       /\ op' = "executeThrow"
          => /\ RollPhase = "Idle"
             /\ RollPhase' \in {"Recording-Requested", "Awaiting-Shadow-Result"}
             /\ rollCount' = rollCount + 1
       /\ rollCount' # rollCount => op' = "executeThrow"
       /\ (RollPhase' = "Playing-Back" /\ RollPhase # "Playing-Back")
          => /\ op' = "executeThrowResume"
             /\ Head(microtasks).promise = rollCount
             /\ ~shadowRecordingRef.isRecording \/ shadowRecordingRef.resolvePromise # rollCount
       /\ (RollPhase' = "Finalizing" /\ RollPhase # "Finalizing") => op' = "updatePlayback"
       /\ (RollPhase' = "Idle" /\ RollPhase # "Idle") => op' = "finalizeTimeout"]_vars

\* the second roll has come back to Idle through its finalization
C14_Witness ==
    /\ rollCount = 2
    /\ op = "finalizeTimeout"
    /\ finalizeCount = 1
    /\ RollPhase = "Idle"
    /\ playbackStateRef.recording = <<>>

\* the natural Recording of the shadow throw that has just been completed
NaturalRecording ==
    ShadowRecording(shadowRecordingRef'.frames,
                    [i \in 1..Len(shadowCubes') |-> getShadowDiceValue(shadowCubes'[i].quaternion)],
                    TRUE, FALSE, <<>>)

\* every setting the operator menu can hold
AnyRigging == [preset : RiggingPresets, customResults : [1..DieCount -> 1..6]]

\* C15: rigging a Recording of fewer than 10 frames hands back the Recording as it
\* was, the same frames in the same order and the same finalResults, with isRigged
\* not set, whatever results are desired
C15_ShortRecordingReturnedUnmodified ==
    [][(CompletionStep /\ Len(shadowRecordingRef'.frames) < 10)
          => /\ ResolvedRecording = NaturalRecording
             /\ ~ResolvedRecording.isRigged
             /\ \A rigging \in AnyRigging : \A seed \in RandomSeeds :
                    rigRecording(NaturalRecording, rigging, seed) = NaturalRecording]_vars

\* a throw under a rigging preset was resolved with its short natural Recording
C15_Witness ==
    /\ op = "fastSimulate"
    /\ ~shadowRecordingRef.isRecording
    /\ Len(shadowRecordingRef.frames) \in 1..9
    /\ currentRiggingRef.preset # "off"
    /\ microtasks # <<>>
    /\ microtasks[Len(microtasks)].value.frames = shadowRecordingRef.frames
    /\ ~microtasks[Len(microtasks)].value.isRigged

\* the settings that ask for no rigging: the preset is off, or the custom values are none
NoRigging ==
    {rigging \in AnyRigging : rigging.preset = "off"}
        \cup {RiggingSettings("custom", <<>>)}

\* C16: with the rigging toggled off, or with an empty request for desired results,
\* rigging hands back the natural Recording unchanged, identical frames and
\* finalResults and isRigged not set, however long the Recording is
C16_NoRiggingPassesThrough ==
    [][CompletionStep
          => /\ \A rigging \in NoRigging : \A seed \in RandomSeeds :
                    rigRecording(NaturalRecording, rigging, seed) = NaturalRecording
             /\ CurrentRigging \in NoRigging
                    => (ResolvedRecording = NaturalRecording /\ ~ResolvedRecording.isRigged)]_vars

\* a throw with the rigging off was resolved with a natural Recording long enough to rig
C16_Witness ==
    /\ op = "fastSimulate"
    /\ ~shadowRecordingRef.isRecording
    /\ Len(shadowRecordingRef.frames) >= 10
    /\ currentRiggingRef.preset = "off"
    /\ microtasks # <<>>
    /\ microtasks[Len(microtasks)].value.frames = shadowRecordingRef.frames
    /\ ~microtasks[Len(microtasks)].value.isRigged

\* C17: the finalization reports the desiredResults of the Recording that was played
\* back when that Recording is rigged, and its natural finalResults when it is not
C17_ReportedResultsFollowRecording ==
    [][op' = "finalizeTimeout"
          => /\ playbackStateRef.recording # <<>>
             /\ rollResults' =
                    IF playbackStateRef.recording[1].isRigged
                    THEN playbackStateRef.recording[1].desiredResults
                    ELSE playbackStateRef.recording[1].finalResults]_vars

\* rolls have been finalized with the results of a rigged Recording
C17_Witness ==
    /\ op = "finalizeTimeout"
    /\ riggingAtThrow.preset # "off"
    /\ currentRiggingRef.preset # "off"
    /\ Len(shadowRecordingRef.frames) >= 10
    /\ rollResults # <<>>
    /\ rollCount = 2

\* the i with frames[i].timestamp <= elapsed < frames[i + 1].timestamp
BracketingIndexes(frames, elapsed) ==
    {i \in 1..(Len(frames) - 1) :
        frames[i].timestamp <= elapsed /\ elapsed < frames[i + 1].timestamp}

\* (elapsed - ts1) / (ts2 - ts1) clamped to [0, 1], in thousandths
ClampedParameter(ts1, ts2, elapsed) ==
    Max(0, Min(QS, RDiv((elapsed - ts1) * QS, ts2 - ts1)))

\* the point at parameter t on the straight line from a to b
LinearBetween(a, b, t) == [k \in 1..3 |-> a[k] + RDiv((b[k] - a[k]) * t, QS)]

\* a playback of die 0 at (0, 5, 0) at timestamp 0 and at (0, 3, 0) at timestamp 100
ExamplePlayback(elapsed) ==
    [isPlayingBack |-> TRUE, elapsed |-> elapsed, isRigged |-> FALSE, riggedResults |-> <<1>>,
     recording |->
        <<ShadowRecording(
            <<PhysicsFrame(0, <<DieState(<<0, 5 * PS, 0>>, <<0, 0, 0, QS>>, ZeroVec, ZeroVec)>>),
              PhysicsFrame(100, <<DieState(<<0, 3 * PS, 0>>, <<0, 0, 0, QS>>, ZeroVec, ZeroVec)>>)>>,
            <<1>>, TRUE, FALSE, <<>>)>>]

\* C18: on a playback tick with frame[i].timestamp <= elapsed < frame[i+1].timestamp,
\* every visible die is given the interpolation of its states in frame[i] and
\* frame[i+1] at t = (elapsed - frame[i].timestamp) / (frame[i+1].timestamp -
\* frame[i].timestamp) clamped to [0, 1], linear in the position and in both
\* velocities; positions (0, 5, 0) at 0 and (0, 3, 0) at 100 give (0, 4, 0) at 50
C18_PlaybackInterpolatesLinearly ==
    /\ PlaybackFrame(ExamplePlayback(50)).diceStates[1].position = <<0, 4 * PS, 0>>
    /\ [][(/\ op' = "updatePlayback"
           /\ playbackStateRef.isPlayingBack
           /\ playbackStateRef.recording # <<>>
           /\ BracketingIndexes(playbackStateRef.recording[1].frames,
                                playbackStateRef.elapsed) # {})
          => \A i \in BracketingIndexes(playbackStateRef.recording[1].frames,
                                        playbackStateRef.elapsed) :
             \A t \in {ClampedParameter(playbackStateRef.recording[1].frames[i].timestamp,
                                        playbackStateRef.recording[1].frames[i + 1].timestamp,
                                        playbackStateRef.elapsed)} :
             \A d \in 1..Len(cubes) :
                 /\ cubes'[d].position =
                        LinearBetween(
                            playbackStateRef.recording[1].frames[i].diceStates[d].position,
                            playbackStateRef.recording[1].frames[i + 1].diceStates[d].position, t)
                 /\ cubes'[d].velocity =
                        LinearBetween(
                            playbackStateRef.recording[1].frames[i].diceStates[d].velocity,
                            playbackStateRef.recording[1].frames[i + 1].diceStates[d].velocity, t)
                 /\ cubes'[d].angularVelocity =
                        LinearBetween(
                            playbackStateRef.recording[1].frames[i].diceStates[d].angularVelocity,
                            playbackStateRef.recording[1].frames[i + 1].diceStates[d].angularVelocity,
                            t)]_vars

\* a playback tick has put a die strictly between its positions in two frames
C18_Witness ==
    /\ op = "updatePlayback"
    /\ playbackStateRef.isPlayingBack
    /\ playbackStateRef.recording # <<>>
    /\ \E i \in BracketingIndexes(playbackStateRef.recording[1].frames,
                                   playbackStateRef.elapsed) :
          /\ ClampedParameter(playbackStateRef.recording[1].frames[i].timestamp,
                              playbackStateRef.recording[1].frames[i + 1].timestamp,
                              playbackStateRef.elapsed) \in 1..(QS - 1)
          /\ \E d \in 1..Len(cubes) :
                /\ cubes[d].position # playbackStateRef.recording[1].frames[i].diceStates[d].position
                /\ cubes[d].position
                       # playbackStateRef.recording[1].frames[i + 1].diceStates[d].position

\* C19: whenever a playback is finalized the reported results hold exactly one face
\* value for each die, every one of them an integer in 1..6, whatever preset or
\* custom values the rigging holds
C19_ReportedResultsAreFaces ==
    [][op' = "finalizeTimeout"
          => /\ Len(rollResults') = Len(cubes)
             /\ Len(cubes) = DieCount
             /\ \A i \in 1..Len(rollResults') : rollResults'[i] \in 1..6
             /\ \A preset \in RiggingPresets \ {"off", "custom"} : \A seed \in RandomSeeds :
                    /\ Len(generateResults(preset, seed)) = DieCount
                    /\ \A i \in 1..DieCount : generateResults(preset, seed)[i] \in 1..6
             /\ \A customResults \in [1..DieCount -> 1..6] : \A seed \in RandomSeeds :
                    /\ Len(DesiredResultsOf(RiggingSettings("custom", customResults), seed))
                           = DieCount
                    /\ \A i \in 1..DieCount :
                           DesiredResultsOf(RiggingSettings("custom", customResults), seed)[i]
                               \in 1..6]_vars

\* a roll thrown with custom desired values has been finalized with those values
C19_Witness ==
    /\ op = "finalizeTimeout"
    /\ riggingAtThrow.preset = "custom"
    /\ currentRiggingRef.preset = "custom"
    /\ Len(shadowRecordingRef.frames) >= 10
    /\ rollResults = currentRiggingRef.customResults

\* C20: rigging a natural Recording of at least 10 frames with valid desired results
\* never returns fewer frames than it was given
C20_RiggingNeverShortens ==
    (rigOutput # <<>> /\ Len(rigInput[1].frames) >= 10 /\ rigOutput[1].isRigged)
        => Len(rigOutput[1].frames) >= Len(rigInput[1].frames)

\* the six axis directions +X, -X, +Y, -Y, +Z, -Z
AxisDirections ==
    {<<1, 0, 0>>, <<-1, 0, 0>>, <<0, 1, 0>>, <<0, -1, 0>>, <<0, 0, 1>>, <<0, 0, -1>>}

\* C21: the face-value-to-direction table is a bijection between the face values 1..6
\* and the six axis directions: every value has exactly one direction and every
\* direction is used by exactly one value; the values the operator menu holds are
\* values of the table
C21_FaceTableIsBijection ==
    /\ \A d \in DOMAIN currentRiggingRef.customResults :
          currentRiggingRef.customResults[d] \in DOMAIN FACE_VALUE_TO_NORMAL
    /\ DOMAIN FACE_VALUE_TO_NORMAL = 1..6
    /\ \A v \in 1..6 : FACE_VALUE_TO_NORMAL[v] \in AxisDirections
    /\ \A direction \in AxisDirections :
          Cardinality({v \in 1..6 : FACE_VALUE_TO_NORMAL[v] = direction}) = 1

\* the table has been read to build a rigged Recording whose dice end on the desired faces
C21_Witness ==
    /\ op = "fastSimulate"
    /\ microtasks # <<>>
    /\ microtasks[Len(microtasks)].value.isRigged
    /\ \A d \in 1..DieCount :
          getShadowDiceValue(
              microtasks[Len(microtasks)].value.frames[
                  Len(microtasks[Len(microtasks)].value.frames)].diceStates[d].quaternion)
              = microtasks[Len(microtasks)].value.desiredResults[d]

\* C22: the ends of slerpQuaternions: slerp(a, a, t) is a for every t in [0, 1],
\* slerp(a, b, 0) is a and slerp(a, b, 1) is b, for all unit quaternions a and b
C22_SlerpBoundaryLaw ==
    slerpOutput # <<>>
        => /\ slerpInput[1] = slerpInput[2] => slerpOutput[1] = slerpInput[1]
           /\ slerpInput[3] = 0 => slerpOutput[1] = slerpInput[1]
           /\ slerpInput[3] = QS => slerpOutput[1] = slerpInput[2]

\* slerpQuaternions was called at t = 1 on two different rotations
C22_Witness ==
    /\ slerpOutput # <<>>
    /\ slerpInput[3] = QS
    /\ slerpInput[1] # slerpInput[2]
    /\ slerpInput[1] # QNeg(slerpInput[2])
    /\ slerpOutput[1] = slerpInput[2]

\* two quaternions that turn a die the same way, to within 0.05 in every component
SameRotation(p, q) ==
    \/ \A k \in 1..4 : Abs(p[k] - q[k]) <= 50
    \/ \A k \in 1..4 : Abs(p[k] + q[k]) <= 50

\* C23: for unit quaternions a and b with a negative dot product slerp(a, b, t) is
\* slerp(a, -b, t) for every t: the interpolation takes the shorter arc
C23_SlerpTakesShorterArc ==
    (slerpOutput # <<>> /\ QDot(slerpInput[1], slerpInput[2]) < 0)
        => SameRotation(slerpOutput[1],
                        slerpQuaternions(slerpInput[1], QNeg(slerpInput[2]), slerpInput[3]))

\* C24: in every tick each body is written by one component at most: the render loop
\* neither steps nor overwrites the shadow bodies while a shadow recording is active,
\* and its physics step does not advance the visible bodies while the playback is
\* writing them
C24_OneWriterPerTick ==
    [][/\ (op' = "animate" /\ shadowRecordingRef.isRecording) => shadowCubes' = shadowCubes
       /\ (op' = "animate" /\ playbackStateRef.isPlayingBack /\ FinalizeTimers = {}
              /\ playbackStateRef.recording # <<>>
              /\ Len(playbackStateRef.recording[1].frames) > 0)
             => cubes' = cubes]_vars

\* C25: the first midAir frames of a rigged Recording are the frames [0, midAir) of the
\* Recording it was made from, element for element: the rigging alters nothing before
\* the mid-air index
C25_FramesBeforeMidairUntouched ==
    (rigOutput # <<>> /\ rigOutput[1].isRigged)
        => /\ Len(rigOutput[1].frames) >= findMidairPoint(rigInput[1].frames)
           /\ \A k \in 1..findMidairPoint(rigInput[1].frames) :
                 rigOutput[1].frames[k] = rigInput[1].frames[k]

\* a Recording was rigged whose mid-air index is past the first frames and whose later
\* frames the rigging did alter
C25_Witness ==
    /\ rigOutput # <<>>
    /\ rigOutput[1].isRigged
    /\ findMidairPoint(rigInput[1].frames) >= 2
    /\ \E k \in (findMidairPoint(rigInput[1].frames) + 1)..Len(rigInput[1].frames) :
          /\ k <= Len(rigOutput[1].frames)
          /\ rigOutput[1].frames[k] # rigInput[1].frames[k]

\* C26: the mid-air index found for a recording lies within the first quarter of its
\* frames: it is at most floor(frames.length / 4)
C26_MidairWithinFirstQuarter ==
    (rigInput # <<>> /\ Len(rigInput[1].frames) >= 10)
        => findMidairPoint(rigInput[1].frames) <= Len(rigInput[1].frames) \div 4

C28_StaleResetLeavesRecordingAlone ==
    [][(op' = "resetShadowTimeout" /\ shadowRecordingRef.isRecording)
          => (shadowCubes' = shadowCubes /\ shadowGravity' = shadowGravity)]_vars

\* the delayed shadow resets now pending
PendingResets(t) ==
    Cardinality({i \in 1..Len(t) : t[i].fn = "resetShadowDiceToFloatingState"})

\* C29: a shadow throw is completed at most once: the recording flag is raised only by
\* the start of a shadow throw, a reset is scheduled or a promise resolved only in the
\* step that lowers the flag, and that step schedules exactly one reset, resolves the
\* pending promise once and forgets it
C29_CompletedAtMostOnce ==
    [][/\ (~shadowRecordingRef.isRecording /\ shadowRecordingRef'.isRecording)
             => op' = "executeThrow"
       /\ (PendingResets(timers') > PendingResets(timers)) => CompletionStep
       /\ (op' = "fastSimulate" /\ Len(microtasks') > Len(microtasks)) => CompletionStep
       /\ CompletionStep
             => /\ op' = "fastSimulate"
                /\ PendingResets(timers') = PendingResets(timers) + 1
                /\ Len(microtasks') = Len(microtasks)
                                         + (IF shadowRecordingRef.resolvePromise # 0 THEN 1 ELSE 0)
                /\ shadowRecordingRef'.resolvePromise = 0]_vars

\* the second shadow throw has just been completed: its promise is resolved and its
\* reset is scheduled
C29_Witness ==
    /\ op = "fastSimulate"
    /\ ~shadowRecordingRef.isRecording
    /\ rollCount >= 2
    /\ microtasks # <<>>
    /\ \E i \in 1..Len(timers) :
          timers[i].fn = "resetShadowDiceToFloatingState" /\ timers[i].due = 1000

\* seeds of the Math.random() stream the preset generators are tried on
MaxGeneratorSeed == 49
GeneratorSeeds == 0..MaxGeneratorSeed

\* the sums a preset declares for its results
DeclaredSums(preset) ==
    CASE preset = "lucky" -> 15..18
      [] preset = "unlucky" -> 3..6
      [] preset = "balanced" -> 9..12
      [] preset = "snake-eyes" -> {3}
      [] preset = "jackpot" -> {18}

GeneratedPresets == {"lucky", "unlucky", "balanced", "snake-eyes", "jackpot"}

\* three values, each a face of a die, with a sum the preset declares
InDeclaredRange(preset, results) ==
    /\ Len(results) = 3
    /\ \A i \in 1..3 : results[i] \in 1..6
    /\ results[1] + results[2] + results[3] \in DeclaredSums(preset)
    /\ preset = "snake-eyes" => results = <<1, 1, 1>>
    /\ preset = "jackpot" => results = <<6, 6, 6>>

\* C30: the generator of the preset in effect returns three values in 1..6 whose sum is
\* in the preset's declared range (lucky 15..18, unlucky 3..6, balanced 9..12, snake-eyes
\* <<1, 1, 1>>, jackpot <<6, 6, 6>>), for every random stream tried, and so do the results
\* of the Recording a completed shadow throw was rigged to
C30_PresetResultsInRange ==
    currentRiggingRef.preset \in GeneratedPresets
        => /\ \A seed \in GeneratorSeeds :
                 InDeclaredRange(currentRiggingRef.preset,
                                 generateResults(currentRiggingRef.preset, seed))
           /\ (op = "fastSimulate" /\ microtasks # <<>>
                  /\ microtasks[Len(microtasks)].value.isRigged)
                 => InDeclaredRange(currentRiggingRef.preset,
                                    microtasks[Len(microtasks)].value.finalResults)

\* a shadow throw has just been rigged by the lucky preset, with a die raised to six
C30_Witness ==
    /\ op = "fastSimulate"
    /\ microtasks # <<>>
    /\ microtasks[Len(microtasks)].value.isRigged
    /\ currentRiggingRef.preset = "lucky"
    /\ \E i \in 1..3 : microtasks[Len(microtasks)].value.finalResults[i] = 6

=============================================================================
